---- MODULE Spec2Model ----
(***************************************************************************)
(* Pet status lifecycle of PetAd-backend: the StatusTransitionValidator    *)
(* edge tables and decision functions, and PetsService's status operations *)
(* running as interleaved request handlers over one shared store.          *)
(***************************************************************************)
EXTENDS Integers, Sequences, FiniteSets, Bags, TLC

VARIABLES pets, calls, last, pure, adoptions, custodies, events, statics

vars == <<pets, calls, last, pure, adoptions, custodies, events, statics>>

(***************************************************************************)
(* Bounds of the model.                                                    *)
(***************************************************************************)
\* number of request handlers that may be in flight at the same time
MaxCalls == 2

\* the most events the event log is followed for
MaxEvents == 5

\* the most elements callers add to the lists they were handed
MaxPushes == 2

(***************************************************************************)
(* Enumerations.                                                           *)
(***************************************************************************)
\* enum PetStatus, in declaration order (Object.values order)
PetStatus == <<"AVAILABLE", "PENDING", "IN_CUSTODY", "ADOPTED">>

\* enum UserRole
UserRole == {"USER", "SHELTER", "ADMIN"}

SeqToSet(s) == {s[i] : i \in 1..Len(s)}

Statuses == SeqToSet(PetStatus)

\* a value outside the enum, as an untyped caller (newStatus as any) can pass
Bogus == "BOGUS"

\* what a caller may pass as a status
StatusInputs == Statuses \cup {Bogus}

\* an omitted optional role argument
Undefined == "undefined"

RoleInputs == UserRole \cup {Undefined}

\* The authenticated users: identity and (immutable) role, as the JWT
\* carries them into req.user.sub / req.user.role.
Users == { [id |-> "u1", role |-> "USER"],
           [id |-> "u2", role |-> "SHELTER"],
           [id |-> "u3", role |-> "ADMIN"] }

\* p1 is a stored pet; p2 is an id no stored pet has
PetIds == {"p1", "p2"}

NoPet == [status |-> "none", currentOwnerId |-> "none", name |-> "none"]

\* the row of a deleted pet: its id is not given to another pet
DeletedPet == [status |-> "none", currentOwnerId |-> "none", name |-> "deleted"]

\* findUnique finds no row
Absent(row) == row.status = "none"

AdoptionIds == {"a1", "a2"}

\* no adoption request under this id
NoAdoption == [status |-> "none", petId |-> "none", escrow |-> "none"]

CustodyIds == {"c1"}

\* no custody agreement under this id
NoCustody == [status |-> "none", petId |-> "none"]

(***************************************************************************)
(* JavaScript array helpers, computed as the runtime computes them.        *)
(***************************************************************************)
\* Array.prototype.includes
Includes(s, x) == \E i \in 1..Len(s) : s[i] = x

RECURSIVE Dedupe(_, _)
\* Array.from(new Set(s)): first occurrences, in insertion order
Dedupe(s, acc) ==
  IF s = <<>> THEN acc
  ELSE Dedupe(Tail(s), IF Includes(acc, Head(s)) THEN acc ELSE Append(acc, Head(s)))

RECURSIVE Flat(_, _)
\* Object.values(table).flat(): the rows in key order, concatenated
Flat(table, keys) ==
  IF keys = <<>> THEN <<>> ELSE table[Head(keys)] \o Flat(table, Tail(keys))

(***************************************************************************)
(* StatusTransitionValidator                                               *)
(***************************************************************************)
\* as ALLOWED_TRANSITIONS, with IN_CUSTODY -> ADOPTED added
ALLOWED_TRANSITIONS_ExtraEdge ==
  [s \in Statuses |->
     CASE s = "AVAILABLE"  -> <<"PENDING", "IN_CUSTODY">>
       [] s = "PENDING"    -> <<"ADOPTED", "AVAILABLE">>
       [] s = "IN_CUSTODY" -> <<"AVAILABLE", "ADOPTED">>
       [] s = "ADOPTED"    -> <<>>]

\* as ALLOWED_TRANSITIONS, with PENDING -> AVAILABLE left out
ALLOWED_TRANSITIONS_MissingEdge ==
  [s \in Statuses |->
     CASE s = "AVAILABLE"  -> <<"PENDING", "IN_CUSTODY">>
       [] s = "PENDING"    -> <<"ADOPTED">>
       [] s = "IN_CUSTODY" -> <<"AVAILABLE">>
       [] s = "ADOPTED"    -> <<>>]

ALLOWED_TRANSITIONS ==
  [s \in Statuses |->
     CASE s = "AVAILABLE"  -> <<"PENDING", "IN_CUSTODY">>
       [] s = "PENDING"    -> <<"ADOPTED", "AVAILABLE">>
       [] s = "IN_CUSTODY" -> <<"AVAILABLE">>
       [] s = "ADOPTED"    -> <<>>]

ADMIN_ONLY_TRANSITIONS ==
  [s \in Statuses |->
     CASE s = "AVAILABLE"  -> <<>>
       [] s = "PENDING"    -> <<>>
       [] s = "IN_CUSTODY" -> <<>>
       [] s = "ADOPTED"    -> <<"AVAILABLE">>]

\* The static fields of the class as the process holds them: readonly fixes
\* which object each field points to, and the rows are ordinary arrays.
InitialStatics ==
  [ALLOWED_TRANSITIONS |-> ALLOWED_TRANSITIONS,
   ADMIN_ONLY_TRANSITIONS |-> ADMIN_ONLY_TRANSITIONS]

\* table[key] || []  (a key the table lacks reads as undefined)
Row(table, key) == IF key \in DOMAIN table THEN table[key] ELSE <<>>

\* a value returned normally
Returned(v) == [ok |-> TRUE, value |-> v, exception |-> "none", message |-> <<>>]

\* a thrown exception: its class and its message, as the template's pieces
Thrown(cls, msg) == [ok |-> FALSE, value |-> FALSE, exception |-> cls, message |-> msg]

\* as validate, without the no-op branch
validate_NoNoopCheck(currentStatus, newStatus, userRole) ==
  IF ~Includes(PetStatus, currentStatus)
  THEN Thrown("BadRequestException", <<"Invalid current status:", currentStatus>>)
  ELSE IF ~Includes(Flat(ALLOWED_TRANSITIONS, PetStatus), newStatus)
  THEN Thrown("BadRequestException", <<"Invalid new status:", newStatus>>)
  ELSE IF Includes(Row(ALLOWED_TRANSITIONS, currentStatus), newStatus)
  THEN Returned(TRUE)
  ELSE IF Includes(Row(ADMIN_ONLY_TRANSITIONS, currentStatus), newStatus)
  THEN IF userRole = "ADMIN"
       THEN Returned(TRUE)
       ELSE Thrown("BadRequestException",
                   <<"Cannot change status from", currentStatus, "to", newStatus,
                     "This action requires ADMIN role.">>)
  ELSE Thrown("BadRequestException",
              <<"Cannot change status from", currentStatus, "to", newStatus,
                "This transition is not allowed.">>)

\* as validate, with an absent role taken for ADMIN
validate_AbsentRoleElevated(currentStatus, newStatus, userRole) ==
  IF currentStatus = newStatus
  THEN Thrown("BadRequestException",
              <<"Pet status is already", currentStatus, "No transition needed.">>)
  ELSE IF ~Includes(PetStatus, currentStatus)
  THEN Thrown("BadRequestException", <<"Invalid current status:", currentStatus>>)
  ELSE IF ~Includes(Flat(ALLOWED_TRANSITIONS, PetStatus), newStatus)
  THEN Thrown("BadRequestException", <<"Invalid new status:", newStatus>>)
  ELSE IF Includes(Row(ALLOWED_TRANSITIONS, currentStatus), newStatus)
  THEN Returned(TRUE)
  ELSE IF Includes(Row(ADMIN_ONLY_TRANSITIONS, currentStatus), newStatus)
  THEN IF userRole \in {"ADMIN", Undefined}
       THEN Returned(TRUE)
       ELSE Thrown("BadRequestException",
                   <<"Cannot change status from", currentStatus, "to", newStatus,
                     "This action requires ADMIN role.">>)
  ELSE Thrown("BadRequestException",
              <<"Cannot change status from", currentStatus, "to", newStatus,
                "This transition is not allowed.">>)

validate(currentStatus, newStatus, userRole) ==
  IF currentStatus = newStatus
  THEN Thrown("BadRequestException",
              <<"Pet status is already", currentStatus, "No transition needed.">>)
  ELSE IF ~Includes(PetStatus, currentStatus)
  THEN Thrown("BadRequestException", <<"Invalid current status:", currentStatus>>)
  ELSE IF ~Includes(Flat(ALLOWED_TRANSITIONS, PetStatus), newStatus)
  THEN Thrown("BadRequestException", <<"Invalid new status:", newStatus>>)
  ELSE IF Includes(Row(ALLOWED_TRANSITIONS, currentStatus), newStatus)
  THEN Returned(TRUE)
  ELSE IF Includes(Row(ADMIN_ONLY_TRANSITIONS, currentStatus), newStatus)
  THEN IF userRole = "ADMIN"
       THEN Returned(TRUE)
       ELSE Thrown("BadRequestException",
                   <<"Cannot change status from", currentStatus, "to", newStatus,
                     "This action requires ADMIN role.">>)
  ELSE Thrown("BadRequestException",
              <<"Cannot change status from", currentStatus, "to", newStatus,
                "This transition is not allowed.">>)

\* as getAllowedTransitions, without the test of the role
getAllowedTransitions_IgnoresRole(currentStatus, userRole) ==
  Dedupe(Row(ALLOWED_TRANSITIONS, currentStatus)
           \o Row(ADMIN_ONLY_TRANSITIONS, currentStatus), <<>>)

getAllowedTransitions(currentStatus, userRole) ==
  LET standardTransitions == Row(ALLOWED_TRANSITIONS, currentStatus)
      adminTransitions ==
        IF userRole = "ADMIN" THEN Row(ADMIN_ONLY_TRANSITIONS, currentStatus) ELSE <<>>
  IN Dedupe(standardTransitions \o adminTransitions, <<>>)

\* as isTransitionValid, with the role not handed on to validate
isTransitionValid_DropsRole(currentStatus, newStatus, userRole) ==
  LET r == validate(currentStatus, newStatus, "ADMIN")
  IN IF r.ok THEN r.value ELSE FALSE

\* isTransitionValid: validate's result, false when validate throws
isTransitionValid(currentStatus, newStatus, userRole) ==
  LET r == validate(currentStatus, newStatus, userRole)
  IN IF r.ok THEN r.value ELSE FALSE

\* getStatusDescription: the descriptions record, undefined for a missing key
getStatusDescription(status) ==
  CASE status = "AVAILABLE"  -> "Pet is available for adoption"
    [] status = "PENDING"    -> "Pet has a pending adoption request"
    [] status = "IN_CUSTODY" -> "Pet is in temporary custody"
    [] status = "ADOPTED"    -> "Pet has been adopted"
    [] OTHER                 -> Undefined

NoInfo ==
  [currentStatus |-> "none", allowedTransitions |-> <<>>,
   adminOnlyTransitions |-> <<>>, description |-> "none"]

\* as getTransitionInfo, with the admin-only targets listed as allowed too
getTransitionInfo_MergesAdmin(currentStatus) ==
  [currentStatus        |-> currentStatus,
   allowedTransitions   |-> Row(ALLOWED_TRANSITIONS, currentStatus)
                              \o Row(ADMIN_ONLY_TRANSITIONS, currentStatus),
   adminOnlyTransitions |-> Row(ADMIN_ONLY_TRANSITIONS, currentStatus),
   description          |-> getStatusDescription(currentStatus)]

getTransitionInfo(currentStatus) ==
  [currentStatus        |-> currentStatus,
   allowedTransitions   |-> Row(ALLOWED_TRANSITIONS, currentStatus),
   adminOnlyTransitions |-> Row(ADMIN_ONLY_TRANSITIONS, currentStatus),
   description          |-> getStatusDescription(currentStatus)]

(***************************************************************************)
(* PetsService: the synchronous parts of the status operations             *)
(***************************************************************************)
\* as getPetById, without the null check
getPetById_NoNullCheck(store, petId) == Returned(store[petId])

\* prisma.pet.findUnique + the null check of getPetById
getPetById(store, petId) ==
  IF Absent(store[petId])
  THEN Thrown("NotFoundException", <<"Pet with ID", petId, "not found">>)
  ELSE Returned(store[petId])

\* as authorizeStatusUpdate, with ADMIN required for every target
authorizeStatusUpdate_AdminForAll(pet, newStatus, userId, userRole) ==
  IF userRole # "ADMIN"
  THEN Thrown("ForbiddenException",
              <<"Only administrators can change pet status to", newStatus>>)
  ELSE Returned(TRUE)

\* as authorizeStatusUpdate, with the test for AVAILABLE left out
authorizeStatusUpdate_AdoptedOnly(pet, newStatus, userId, userRole) ==
  IF newStatus = "ADOPTED" /\ userRole # "ADMIN"
  THEN Thrown("ForbiddenException",
              <<"Only administrators can change pet status to", newStatus>>)
  ELSE Returned(TRUE)

\* as authorizeStatusUpdate, with the pet's owner let through like an ADMIN
authorizeStatusUpdate_OwnerPasses(pet, newStatus, userId, userRole) ==
  IF /\ (newStatus = "ADOPTED" \/ newStatus = "AVAILABLE")
     /\ userRole # "ADMIN"
     /\ pet.currentOwnerId # userId
  THEN Thrown("ForbiddenException",
              <<"Only administrators can change pet status to", newStatus>>)
  ELSE Returned(TRUE)

\* authorizeStatusUpdate: the targets ADOPTED and AVAILABLE are for ADMIN
\* only; the pet and the actor id are not looked at
authorizeStatusUpdate(pet, newStatus, userId, userRole) ==
  IF (newStatus = "ADOPTED" \/ newStatus = "AVAILABLE") /\ userRole # "ADMIN"
  THEN Thrown("ForbiddenException",
              <<"Only administrators can change pet status to", newStatus>>)
  ELSE Returned(TRUE)

\* as updatePetStatusChecks, without the call of validate
updatePetStatusChecks_NoValidate(store, petId, newStatus, userId, userRole) ==
  LET found == getPetById(store, petId)
  IN IF ~found.ok THEN found
     ELSE LET a == authorizeStatusUpdate(found.value, newStatus, userId, userRole)
          IN IF ~a.ok THEN a ELSE found

\* as updatePetStatusChecks, with authorizeStatusUpdate called before validate
updatePetStatusChecks_AuthorizeFirst(store, petId, newStatus, userId, userRole) ==
  LET found == getPetById(store, petId)
  IN IF ~found.ok THEN found
     ELSE LET a == authorizeStatusUpdate(found.value, newStatus, userId, userRole)
          IN IF ~a.ok THEN a
             ELSE LET v == validate(found.value.status, newStatus, userRole)
                  IN IF ~v.ok THEN v ELSE found

\* updatePetStatus up to its write: getPetById, validate, authorizeStatusUpdate,
\* in the order the code runs them; the first exception thrown ends the call.
updatePetStatusChecks(store, petId, newStatus, userId, userRole) ==
  LET found == getPetById(store, petId)
  IN IF ~found.ok THEN found
     ELSE LET v == validate(found.value.status, newStatus, userRole)
          IN IF ~v.ok THEN v
             ELSE LET a == authorizeStatusUpdate(found.value, newStatus, userId, userRole)
                  IN IF ~a.ok THEN a ELSE found

\* as changeStatusInternalChecks, without the call of validate
changeStatusInternalChecks_NoValidate(store, petId, newStatus) ==
  getPetById(store, petId)

\* as changeStatusInternalChecks, with validate called without a role
changeStatusInternalChecks_NoRole(store, petId, newStatus) ==
  LET found == getPetById(store, petId)
  IN IF ~found.ok THEN found
     ELSE LET v == validate(found.value.status, newStatus, Undefined)
          IN IF ~v.ok THEN v ELSE found

\* changeStatusInternal up to its write: getPetById, then validate as ADMIN
changeStatusInternalChecks(store, petId, newStatus) ==
  LET found == getPetById(store, petId)
  IN IF ~found.ok THEN found
     ELSE LET v == validate(found.value.status, newStatus, "ADMIN")
          IN IF ~v.ok THEN v ELSE found

\* prisma's answer to an update or delete of a row that is not there
RecordNotFound ==
  Thrown("PrismaClientKnownRequestError", <<"Record to update or delete not found">>)

\* as petUpdateStatus, with the owner cleared when the pet becomes ADOPTED
petUpdateStatus_AdoptedClearsOwner(store, petId, newStatus) ==
  [store EXCEPT ![petId].status = newStatus,
                ![petId].currentOwnerId = IF newStatus = "ADOPTED" THEN Undefined ELSE @]

\* as petUpdateStatus, with the status the handler read sent as the data
petUpdateStatus_KeepsStatus(store, petId, newStatus) == store

\* prisma.pet.update({ where: { id }, data: { status } }): the row with that id
\* gets the new status, whatever status it holds at that moment
petUpdateStatus(store, petId, newStatus) ==
  [store EXCEPT ![petId].status = newStatus]

\* no console line
NoLine ==
  [petId |-> "none", oldStatus |-> "none", newStatus |-> "none",
   actor |-> "none", reason |-> "none"]

\* what JavaScript takes for true in a condition, of the optional strings
Truthy(v) == v # Undefined /\ v # ""

\* a || b
OrElse(a, b) == IF Truthy(a) THEN a ELSE b

\* as StatusChangeLine, with the new status printed on both sides of the arrow
StatusChangeLine_NewAsOld(petId, oldStatus, newStatus, userId, reason) ==
  [petId |-> petId, oldStatus |-> newStatus, newStatus |-> newStatus,
   actor |-> IF Truthy(userId) THEN userId ELSE "(system)",
   reason |-> IF Truthy(reason) THEN reason ELSE Undefined]

\* the line logStatusChange hands to console.log: the pet id, old -> new,
\* ' by <userId>' or ' (system)', and ' - <reason>' when a reason is given
StatusChangeLine(petId, oldStatus, newStatus, userId, reason) ==
  [petId |-> petId, oldStatus |-> oldStatus, newStatus |-> newStatus,
   actor |-> IF Truthy(userId) THEN userId ELSE "(system)",
   reason |-> IF Truthy(reason) THEN reason ELSE Undefined]

\* as logStatusChange, with a failure of the sink thrown to the caller
logStatusChange_Throws(petId, oldStatus, newStatus, userId, reason, sinkOk) ==
  IF sinkOk
  THEN [ok |-> TRUE, exception |-> "none", message |-> <<>>,
        emitted |-> StatusChangeLine(petId, oldStatus, newStatus, userId, reason),
        line |-> StatusChangeLine(petId, oldStatus, newStatus, userId, reason)]
  ELSE [ok |-> FALSE, exception |-> "Error", message |-> <<"write failed">>,
        emitted |-> StatusChangeLine(petId, oldStatus, newStatus, userId, reason),
        line |-> NoLine]

\* logStatusChange: one console.log call. The audit sink is the process's
\* console; when it cannot take the line (sinkOk false) the line is lost and
\* console.log still returns, so nothing is thrown to the caller. emitted is
\* the line handed to console.log, line what the console holds of it.
logStatusChange(petId, oldStatus, newStatus, userId, reason, sinkOk) ==
  [ok |-> TRUE, exception |-> "none", message |-> <<>>,
   emitted |-> StatusChangeLine(petId, oldStatus, newStatus, userId, reason),
   line |-> IF sinkOk
            THEN StatusChangeLine(petId, oldStatus, newStatus, userId, reason)
            ELSE NoLine]

(***************************************************************************)
(* State                                                                   *)
(*   pets   the pet table of the store, by id                              *)
(*   calls  the handlers suspended on their prisma.pet.update, as a bag    *)
(*   last   what the most recently finished service call gave its caller   *)
(*   pure   the most recent application of a validator function            *)
(*   adoptions  the adoption requests of the store, by id                  *)
(*   custodies  the custody agreements of the store, by id                 *)
(*   events     the event log, in the order the events were recorded       *)
(*   statics    the arrays the validator's two static tables point to      *)
(***************************************************************************)
\* a request body: each field it may carry, Undefined when it does not
NoDto == [name |-> Undefined, status |-> Undefined, currentOwnerId |-> Undefined]

\* a handler between its read and its write: its arguments and the pet it read
InFlight(op, petId, newStatus, userId, userRole, observed) ==
  [op |-> op, petId |-> petId, newStatus |-> newStatus,
   userId |-> userId, userRole |-> userRole, observed |-> observed,
   adoptionId |-> "none", escrow |-> "none", custodyId |-> "none",
   workflowStatus |-> "none", dto |-> NoDto, observedPet |-> NoPet,
   reason |-> Undefined]

\* what a finished call gave its caller
Outcome(op, petId, newStatus, userId, userRole, observed, res, returned, targets, info) ==
  [op |-> op, petId |-> petId, newStatus |-> newStatus, userId |-> userId,
   userRole |-> userRole, observed |-> observed,
   ok |-> res.ok, exception |-> res.exception, message |-> res.message,
   returned |-> returned, targets |-> targets, info |-> info,
   written |-> FALSE, audit |-> NoLine, adoptionId |-> "none", escrow |-> "none",
   custodyId |-> "none", workflowStatus |-> "none", dto |-> NoDto, observedPet |-> NoPet,
   reason |-> Undefined, emitted |-> NoLine]

\* the outcome of a call whose write was applied: after the write comes
\* logStatusChange, and an exception out of it would be what the caller gets
\* in place of the updated pet
AfterWrite(call, updatedPet, log) ==
  [Outcome(call.op, call.petId, call.newStatus, call.userId, call.userRole,
           call.observed,
           IF log.ok THEN Returned(TRUE) ELSE Thrown(log.exception, log.message),
           IF log.ok THEN updatedPet ELSE NoPet, <<>>, NoInfo)
   EXCEPT !.written = TRUE, !.audit = log.line, !.emitted = log.emitted,
          !.reason = call.reason,
          !.adoptionId = call.adoptionId, !.escrow = call.escrow,
          !.custodyId = call.custodyId, !.workflowStatus = call.workflowStatus]

\* the outcome of a call whose prisma.pet.update was rejected: the exception
\* leaves the handler before logStatusChange
Failed(call, res) ==
  [Outcome(call.op, call.petId, call.newStatus, call.userId, call.userRole,
           call.observed, res, NoPet, <<>>, NoInfo)
   EXCEPT !.reason = call.reason]

NoOutcome ==
  Outcome("none", "none", "none", "none", "none", "none", Returned(TRUE), NoPet, <<>>, NoInfo)

NoPure ==
  [fn |-> "none", currentStatus |-> "none", newStatus |-> "none", userRole |-> "none",
   ok |-> TRUE, value |-> FALSE, exception |-> "none", message |-> <<>>, targets |-> <<>>]

\* One listed pet, created AVAILABLE by its owner; no call in flight.
Init ==
  /\ pets = [p \in PetIds |->
               IF p = "p1" THEN [status |-> "AVAILABLE", currentOwnerId |-> "u1", name |-> "n0"]
               ELSE NoPet]
  /\ calls = EmptyBag
  /\ last = NoOutcome
  /\ pure = NoPure
  /\ adoptions = [a \in AdoptionIds |-> NoAdoption]
  /\ custodies = [c \in CustodyIds |-> NoCustody]
  /\ events = <<>>
  /\ statics = InitialStatics

StatusOf(store, petId) == store[petId].status

\* the handlers in flight
Pending == BagToSet(calls)

\* a call of updatePetStatus or changeStatusInternal
IsStatusCall(call) == call.op \in {"updatePetStatus", "changeStatusInternal"}

(***************************************************************************)
(* updatePetStatus                                                         *)
(***************************************************************************)
\* await getPetById, then validate and authorizeStatusUpdate; an exception
\* ends the call, otherwise the handler is suspended on prisma.pet.update
UpdatePetStatusLoad(petId, newStatus, userId, userRole, reason) ==
  /\ BagCardinality(calls) < MaxCalls
  /\ LET r == updatePetStatusChecks(pets, petId, newStatus, userId, userRole)
     IN IF r.ok
        THEN /\ calls' = calls (+) SetToBag({[InFlight("updatePetStatus", petId, newStatus,
                                                       userId, userRole, r.value.status)
                                              EXCEPT !.reason = reason]})
             /\ UNCHANGED last
        ELSE /\ last' = [Outcome("updatePetStatus", petId, newStatus, userId, userRole,
                                 StatusOf(pets, petId), r, NoPet, <<>>, NoInfo)
                         EXCEPT !.reason = reason]
             /\ UNCHANGED calls
  /\ UNCHANGED <<pets, pure, adoptions, custodies, events, statics>>

\* prisma.pet.update answers: with the updated row, then logStatusChange and
\* return updatedPet; or with its error when the row is gone
UpdatePetStatusWrite(call) ==
  /\ call.op = "updatePetStatus"
  /\ IF Absent(pets[call.petId])
     THEN /\ last' = Failed(call, RecordNotFound)
          /\ UNCHANGED pets
     ELSE /\ pets' = petUpdateStatus(pets, call.petId, call.newStatus)
          /\ \E sinkOk \in BOOLEAN :
               last' = AfterWrite(call, pets'[call.petId],
                                  logStatusChange(call.petId, call.observed, call.newStatus,
                                                  call.userId, call.reason, sinkOk))
  /\ calls' = calls (-) SetToBag({call})
  /\ UNCHANGED <<pure, adoptions, custodies, events, statics>>

(***************************************************************************)
(* changeStatusInternal                                                    *)
(***************************************************************************)
\* await getPetById, then validate with UserRole.ADMIN
ChangeStatusInternalLoad(petId, newStatus, reason) ==
  /\ BagCardinality(calls) < MaxCalls
  /\ LET r == changeStatusInternalChecks(pets, petId, newStatus)
     IN IF r.ok
        THEN /\ calls' = calls (+) SetToBag({[InFlight("changeStatusInternal", petId, newStatus,
                                                       Undefined, "none", r.value.status)
                                              EXCEPT !.reason = reason]})
             /\ UNCHANGED last
        ELSE /\ last' = [Outcome("changeStatusInternal", petId, newStatus, Undefined, "none",
                                 StatusOf(pets, petId), r, NoPet, <<>>, NoInfo)
                         EXCEPT !.reason = reason]
             /\ UNCHANGED calls
  /\ UNCHANGED <<pets, pure, adoptions, custodies, events, statics>>

\* prisma.pet.update answers: with the updated row, then logStatusChange and
\* return updatedPet; or with its error when the row is gone
ChangeStatusInternalWrite(call) ==
  /\ call.op = "changeStatusInternal"
  /\ IF Absent(pets[call.petId])
     THEN /\ last' = Failed(call, RecordNotFound)
          /\ UNCHANGED pets
     ELSE /\ pets' = petUpdateStatus(pets, call.petId, call.newStatus)
          /\ \E sinkOk \in BOOLEAN :
               last' = AfterWrite(call, pets'[call.petId],
                                  logStatusChange(call.petId, call.observed, call.newStatus,
                                                  Undefined,
                                                  OrElse(call.reason,
                                                         "System-triggered status change"),
                                                  sinkOk))
  /\ calls' = calls (-) SetToBag({call})
  /\ UNCHANGED <<pure, adoptions, custodies, events, statics>>

(***************************************************************************)
(* Read operations of the service                                          *)
(***************************************************************************)
GetPetById(petId) ==
  /\ LET r == getPetById(pets, petId)
     IN last' = Outcome("getPetById", petId, "none", "none", "none", StatusOf(pets, petId),
                        r, IF r.ok THEN r.value ELSE NoPet, <<>>, NoInfo)
  /\ UNCHANGED <<pets, calls, pure, adoptions, custodies, events, statics>>

GetAllowedTransitions(petId, userRole) ==
  /\ LET r == getPetById(pets, petId)
     IN last' = Outcome("getAllowedTransitions", petId, "none", "none", userRole,
                        StatusOf(pets, petId), r, NoPet,
                        IF r.ok THEN getAllowedTransitions(r.value.status, userRole) ELSE <<>>,
                        NoInfo)
  /\ UNCHANGED <<pets, calls, pure, adoptions, custodies, events, statics>>

GetTransitionInfo(petId) ==
  /\ LET r == getPetById(pets, petId)
     IN last' = Outcome("getTransitionInfo", petId, "none", "none", "none",
                        StatusOf(pets, petId), r, NoPet, <<>>,
                        IF r.ok THEN getTransitionInfo(r.value.status) ELSE NoInfo)
  /\ UNCHANGED <<pets, calls, pure, adoptions, custodies, events, statics>>

Next ==
  \/ \E petId \in PetIds, newStatus \in StatusInputs, u \in Users :
       UpdatePetStatusLoad(petId, newStatus, u.id, u.role, Undefined)
  \/ \E call \in Pending : UpdatePetStatusWrite(call)
  \/ \E petId \in PetIds, newStatus \in StatusInputs :
       ChangeStatusInternalLoad(petId, newStatus, Undefined)
  \/ \E call \in Pending : ChangeStatusInternalWrite(call)
  \/ \E petId \in PetIds : GetPetById(petId)
  \/ \E petId \in PetIds, userRole \in RoleInputs : GetAllowedTransitions(petId, userRole)
  \/ \E petId \in PetIds : GetTransitionInfo(petId)

Spec == Init /\ [][Next]_vars

(***************************************************************************)
(* The status operations called with and without a reason                  *)
(***************************************************************************)
\* the optional reason argument: left out, empty, or given
Reasons == {Undefined, "", "vet visit"}

\* the calls made one at a time: each is awaited before the next is made
NextAudit ==
  \/ \E petId \in PetIds, newStatus \in StatusInputs, u \in Users, reason \in Reasons :
       /\ calls = EmptyBag
       /\ UpdatePetStatusLoad(petId, newStatus, u.id, u.role, reason)
  \/ \E call \in Pending : UpdatePetStatusWrite(call)
  \/ \E petId \in PetIds, newStatus \in StatusInputs, reason \in Reasons :
       /\ calls = EmptyBag
       /\ ChangeStatusInternalLoad(petId, newStatus, reason)
  \/ \E call \in Pending : ChangeStatusInternalWrite(call)

SpecAudit == Init /\ [][NextAudit]_vars

\* the actors a RolesGuard-free handler can be given that are not ADMIN
NonAdmins == {u \in Users : u.role # "ADMIN"}

\* updatePetStatus called by USER and SHELTER actors only, one call at a time
NextNonAdmin ==
  \/ \E petId \in PetIds, newStatus \in StatusInputs, u \in NonAdmins, reason \in Reasons :
       /\ calls = EmptyBag
       /\ UpdatePetStatusLoad(petId, newStatus, u.id, u.role, reason)
  \/ \E call \in Pending : UpdatePetStatusWrite(call)

SpecNonAdmin == Init /\ [][NextNonAdmin]_vars

(***************************************************************************)
(* The validator's pure functions, applied to every input                  *)
(***************************************************************************)
PureValidate(currentStatus, newStatus, userRole) ==
  /\ LET r == validate(currentStatus, newStatus, userRole)
     IN pure' = [fn |-> "validate", currentStatus |-> currentStatus,
                 newStatus |-> newStatus, userRole |-> userRole,
                 ok |-> r.ok, value |-> r.value, exception |-> r.exception,
                 message |-> r.message, targets |-> <<>>]
  /\ UNCHANGED <<pets, calls, last, adoptions, custodies, events, statics>>

PureGetAllowedTransitions(currentStatus, userRole) ==
  /\ pure' = [fn |-> "getAllowedTransitions", currentStatus |-> currentStatus,
              newStatus |-> "none", userRole |-> userRole,
              ok |-> TRUE, value |-> FALSE, exception |-> "none", message |-> <<>>,
              targets |-> getAllowedTransitions(currentStatus, userRole)]
  /\ UNCHANGED <<pets, calls, last, adoptions, custodies, events, statics>>

PureIsTransitionValid(currentStatus, newStatus, userRole) ==
  /\ pure' = [fn |-> "isTransitionValid", currentStatus |-> currentStatus,
              newStatus |-> newStatus, userRole |-> userRole,
              ok |-> TRUE,
              value |-> isTransitionValid(currentStatus, newStatus, userRole),
              exception |-> "none", message |-> <<>>, targets |-> <<>>]
  /\ UNCHANGED <<pets, calls, last, adoptions, custodies, events, statics>>

NextValidator ==
  \/ \E currentStatus \in StatusInputs, newStatus \in StatusInputs, userRole \in RoleInputs :
       PureValidate(currentStatus, newStatus, userRole)
  \/ \E currentStatus \in StatusInputs, userRole \in RoleInputs :
       PureGetAllowedTransitions(currentStatus, userRole)
  \/ \E currentStatus \in StatusInputs, newStatus \in StatusInputs, userRole \in RoleInputs :
       PureIsTransitionValid(currentStatus, newStatus, userRole)

SpecValidator == Init /\ [][NextValidator]_vars

(***************************************************************************)
(* The validator over the tables as the process holds them, and callers    *)
(* that change the lists they were handed                                  *)
(***************************************************************************)
\* validate, reading the static fields st
validateOn(st, currentStatus, newStatus, userRole) ==
  IF currentStatus = newStatus
  THEN Thrown("BadRequestException",
              <<"Pet status is already", currentStatus, "No transition needed.">>)
  ELSE IF ~Includes(PetStatus, currentStatus)
  THEN Thrown("BadRequestException", <<"Invalid current status:", currentStatus>>)
  ELSE IF ~Includes(Flat(st.ALLOWED_TRANSITIONS, PetStatus), newStatus)
  THEN Thrown("BadRequestException", <<"Invalid new status:", newStatus>>)
  ELSE IF Includes(Row(st.ALLOWED_TRANSITIONS, currentStatus), newStatus)
  THEN Returned(TRUE)
  ELSE IF Includes(Row(st.ADMIN_ONLY_TRANSITIONS, currentStatus), newStatus)
  THEN IF userRole = "ADMIN"
       THEN Returned(TRUE)
       ELSE Thrown("BadRequestException",
                   <<"Cannot change status from", currentStatus, "to", newStatus,
                     "This action requires ADMIN role.">>)
  ELSE Thrown("BadRequestException",
              <<"Cannot change status from", currentStatus, "to", newStatus,
                "This transition is not allowed.">>)

\* getAllowedTransitions, reading the static fields st: a new array
getAllowedTransitionsOn(st, currentStatus, userRole) ==
  LET standardTransitions == Row(st.ALLOWED_TRANSITIONS, currentStatus)
      adminTransitions ==
        IF userRole = "ADMIN" THEN Row(st.ADMIN_ONLY_TRANSITIONS, currentStatus) ELSE <<>>
  IN Dedupe(standardTransitions \o adminTransitions, <<>>)

\* the two lists of a getTransitionInfo result
InfoFields == {"allowedTransitions", "adminOnlyTransitions"}

\* the static field a list of getTransitionInfo's result is read from
TableOf(field) ==
  IF field = "allowedTransitions" THEN "ALLOWED_TRANSITIONS" ELSE "ADMIN_ONLY_TRANSITIONS"

\* getTransitionInfo(currentStatus)[field].push(t): the list is the table's
\* own row (this.TABLE[currentStatus]), a new empty array only when the table
\* has no such key, so the element is added to the row itself
pushOntoInfo(st, currentStatus, field, t) ==
  IF currentStatus \in DOMAIN st[TableOf(field)]
  THEN [st EXCEPT ![TableOf(field)][currentStatus] = Append(@, t)]
  ELSE st

RECURSIVE SumLen(_, _)
SumLen(table, keys) ==
  IF keys = <<>> THEN 0 ELSE Len(table[Head(keys)]) + SumLen(table, Tail(keys))

\* the elements the two tables hold
Held(st) ==
  SumLen(st.ALLOWED_TRANSITIONS, PetStatus) + SumLen(st.ADMIN_ONLY_TRANSITIONS, PetStatus)

\* a caller asks for the transition info of a status and adds a target to
\* one of the two lists of the result
PushOntoTransitionInfo(currentStatus, field, t) ==
  /\ Held(statics) < Held(InitialStatics) + MaxPushes
  /\ statics' = pushOntoInfo(statics, currentStatus, field, t)
  /\ pure' = [fn |-> "getTransitionInfo", currentStatus |-> currentStatus,
              newStatus |-> t, userRole |-> "none",
              ok |-> TRUE, value |-> FALSE, exception |-> "none", message |-> <<>>,
              targets |-> Append(Row(statics[TableOf(field)], currentStatus), t)]
  /\ UNCHANGED <<pets, calls, last, adoptions, custodies, events>>

\* a caller asks for the allowed targets and adds one to the list returned
PushOntoAllowedTransitions(currentStatus, userRole, t) ==
  /\ pure' = [fn |-> "getAllowedTransitions", currentStatus |-> currentStatus,
              newStatus |-> t, userRole |-> userRole,
              ok |-> TRUE, value |-> FALSE, exception |-> "none", message |-> <<>>,
              targets |-> Append(getAllowedTransitionsOn(statics, currentStatus, userRole), t)]
  /\ UNCHANGED <<pets, calls, last, adoptions, custodies, events, statics>>

\* validate, called on the tables as they are now
ValidateOnStatics(currentStatus, newStatus, userRole) ==
  /\ LET r == validateOn(statics, currentStatus, newStatus, userRole)
     IN pure' = [fn |-> "validate", currentStatus |-> currentStatus,
                 newStatus |-> newStatus, userRole |-> userRole,
                 ok |-> r.ok, value |-> r.value, exception |-> r.exception,
                 message |-> r.message, targets |-> <<>>]
  /\ UNCHANGED <<pets, calls, last, adoptions, custodies, events, statics>>

\* the targets callers add
PushedTargets == {"AVAILABLE", "ADOPTED"}

NextStatics ==
  \/ \E currentStatus \in StatusInputs, field \in InfoFields, t \in PushedTargets :
       PushOntoTransitionInfo(currentStatus, field, t)
  \/ \E currentStatus \in Statuses, userRole \in {"USER", "ADMIN"}, t \in PushedTargets :
       PushOntoAllowedTransitions(currentStatus, userRole, t)
  \/ \E currentStatus \in Statuses, newStatus \in Statuses, userRole \in {"USER", "ADMIN"} :
       ValidateOnStatics(currentStatus, newStatus, userRole)

SpecStatics == Init /\ [][NextStatics]_vars

(***************************************************************************)
(* PetsService: create, update, remove                                     *)
(***************************************************************************)
\* { ...a, ...b }: the fields b carries replace those of a
Spread(a, b) == [k \in DOMAIN a |-> IF b[k] # Undefined THEN b[k] ELSE a[k]]

\* the bodies create is called with: a name, and possibly a status or an owner
CreatePetDtos ==
  { [NoDto EXCEPT !.name = "n1"],
    [NoDto EXCEPT !.name = "n1", !.status = "ADOPTED"],
    [NoDto EXCEPT !.name = "n1", !.status = Bogus],
    [NoDto EXCEPT !.name = "n1", !.currentOwnerId = "u3"] }

\* the bodies update is called with: descriptive fields only, or none
UpdatePetDtos == { NoDto, [NoDto EXCEPT !.name = "n2"] }

\* as createData, with the request body spread over the fixed fields
createData_SpreadLast(createPetDto, ownerId) ==
  Spread([NoDto EXCEPT !.currentOwnerId = ownerId, !.status = "AVAILABLE"], createPetDto)

\* the data of prisma.pet.create: the body, then currentOwnerId and status
createData(createPetDto, ownerId) ==
  Spread(createPetDto, [NoDto EXCEPT !.currentOwnerId = ownerId, !.status = "AVAILABLE"])

\* as updateChecks, with the ownership test before the existence test
updateChecks_OwnershipFirst(store, id, userId, userRole) ==
  LET pet == store[id]
  IN IF pet.currentOwnerId # userId /\ userRole # "ADMIN"
     THEN Thrown("ForbiddenException", <<"Not authorized">>)
     ELSE IF Absent(pet)
     THEN Thrown("NotFoundException", <<"Pet not found">>)
     ELSE Returned(pet)

\* as updateChecks, without the ADMIN override
updateChecks_OwnerOnly(store, id, userId, userRole) ==
  LET pet == store[id]
  IN IF Absent(pet)
     THEN Thrown("NotFoundException", <<"Pet not found">>)
     ELSE IF pet.currentOwnerId # userId
     THEN Thrown("ForbiddenException", <<"Not authorized">>)
     ELSE Returned(pet)

\* update up to its write: findUnique, the null check, the ownership check
updateChecks(store, id, userId, userRole) ==
  LET pet == store[id]
  IN IF Absent(pet)
     THEN Thrown("NotFoundException", <<"Pet not found">>)
     ELSE IF pet.currentOwnerId # userId /\ userRole # "ADMIN"
     THEN Thrown("ForbiddenException", <<"Not authorized">>)
     ELSE Returned(pet)

\* prisma.pet.update({ where: { id }, data: updatePetDto })
prismaPetUpdate(store, id, updatePetDto) ==
  [store EXCEPT ![id] = Spread(@, updatePetDto)]

\* as removeChecks, with the role test before the existence test
removeChecks_RoleFirst(store, id, userRole) ==
  IF userRole # "ADMIN"
  THEN Thrown("ForbiddenException", <<"Only admin can delete">>)
  ELSE IF Absent(store[id])
  THEN Thrown("NotFoundException", <<"Pet not found">>)
  ELSE Returned(store[id])

\* remove up to its delete: findUnique, the null check, the role check
removeChecks(store, id, userRole) ==
  IF Absent(store[id])
  THEN Thrown("NotFoundException", <<"Pet not found">>)
  ELSE IF userRole # "ADMIN"
  THEN Thrown("ForbiddenException", <<"Only admin can delete">>)
  ELSE Returned(store[id])

\* prisma.pet.delete({ where: { id } })
prismaPetDelete(store, id) == [store EXCEPT ![id] = DeletedPet]

\* a create, update or remove call between its read and its write
InFlightCrud(op, petId, dto, userId, userRole, pet) ==
  [InFlight(op, petId, "none", userId, userRole, pet.status)
   EXCEPT !.dto = dto, !.observedPet = pet]

\* what a finished create, update or remove call gave its caller
OutcomeCrud(op, petId, dto, userId, userRole, pet, res, returned, written) ==
  [Outcome(op, petId, "none", userId, userRole, pet.status, res, returned, <<>>, NoInfo)
   EXCEPT !.dto = dto, !.observedPet = pet, !.written = written]

\* create: one prisma.pet.create; the store gives the row an id of its own
Create(petId, createPetDto, ownerId, userRole) ==
  /\ pets[petId] = NoPet
  /\ pets' = [pets EXCEPT ![petId] = createData(createPetDto, ownerId)]
  /\ last' = OutcomeCrud("create", petId, createPetDto, ownerId, userRole, NoPet,
                         Returned(TRUE), pets'[petId], TRUE)
  /\ UNCHANGED <<calls, pure, adoptions, custodies, events, statics>>

\* await findUnique, then the checks; an exception ends the call, otherwise
\* the handler is suspended on prisma.pet.update
UpdateLoad(id, updatePetDto, userId, userRole) ==
  /\ BagCardinality(calls) < MaxCalls
  /\ LET r == updateChecks(pets, id, userId, userRole)
     IN IF r.ok
        THEN /\ calls' = calls (+) SetToBag({InFlightCrud("update", id, updatePetDto,
                                                          userId, userRole, r.value)})
             /\ UNCHANGED last
        ELSE /\ last' = OutcomeCrud("update", id, updatePetDto, userId, userRole,
                                    pets[id], r, NoPet, FALSE)
             /\ UNCHANGED calls
  /\ UNCHANGED <<pets, pure, adoptions, custodies, events, statics>>

\* prisma.pet.update answers: the updated row, or its error when the row
\* was deleted in between
UpdateWrite(call) ==
  /\ call.op = "update"
  /\ IF Absent(pets[call.petId])
     THEN /\ last' = OutcomeCrud("update", call.petId, call.dto, call.userId,
                                 call.userRole, call.observedPet, RecordNotFound,
                                 NoPet, FALSE)
          /\ UNCHANGED pets
     ELSE /\ pets' = prismaPetUpdate(pets, call.petId, call.dto)
          /\ last' = OutcomeCrud("update", call.petId, call.dto, call.userId,
                                 call.userRole, call.observedPet, Returned(TRUE),
                                 pets'[call.petId], TRUE)
  /\ calls' = calls (-) SetToBag({call})
  /\ UNCHANGED <<pure, adoptions, custodies, events, statics>>

RemoveLoad(id, userId, userRole) ==
  /\ BagCardinality(calls) < MaxCalls
  /\ LET r == removeChecks(pets, id, userRole)
     IN IF r.ok
        THEN /\ calls' = calls (+) SetToBag({InFlightCrud("remove", id, NoDto,
                                                          userId, userRole, r.value)})
             /\ UNCHANGED last
        ELSE /\ last' = OutcomeCrud("remove", id, NoDto, userId, userRole,
                                    pets[id], r, NoPet, FALSE)
             /\ UNCHANGED calls
  /\ UNCHANGED <<pets, pure, adoptions, custodies, events, statics>>

\* prisma.pet.delete answers; return the success message
RemoveWrite(call) ==
  /\ call.op = "remove"
  /\ IF Absent(pets[call.petId])
     THEN /\ last' = OutcomeCrud("remove", call.petId, NoDto, call.userId,
                                 call.userRole, call.observedPet, RecordNotFound,
                                 NoPet, FALSE)
          /\ UNCHANGED pets
     ELSE /\ pets' = prismaPetDelete(pets, call.petId)
          /\ last' = OutcomeCrud("remove", call.petId, NoDto, call.userId,
                                 call.userRole, call.observedPet, Returned(TRUE),
                                 NoPet, TRUE)
  /\ calls' = calls (-) SetToBag({call})
  /\ UNCHANGED <<pure, adoptions, custodies, events, statics>>

NextCrud ==
  \/ \E petId \in PetIds, createPetDto \in CreatePetDtos, u \in Users :
       Create(petId, createPetDto, u.id, u.role)
  \/ \E id \in PetIds, updatePetDto \in UpdatePetDtos, u \in Users :
       UpdateLoad(id, updatePetDto, u.id, u.role)
  \/ \E call \in Pending : UpdateWrite(call)
  \/ \E id \in PetIds, u \in Users : RemoveLoad(id, u.id, u.role)
  \/ \E call \in Pending : RemoveWrite(call)

SpecCrud == Init /\ [][NextCrud]_vars

\* the callers of the status operations on the listed pet: a USER, an ADMIN
\* and (with no user id) the workflows
LiveCallers == {"u1", "u3", Undefined}

\* a status call is known by its caller and the status it asks for
CallKeys == LiveCallers \X Statuses

Keyed(call, key) ==
  IsStatusCall(call) /\ call.userId = key[1] /\ call.newStatus = key[2]

\* the call with this key is waiting for its write
Waiting(key) == \E call \in Pending : Keyed(call, key)

\* Status calls on the listed pet while an ADMIN may remove it. A caller does
\* not repeat a request that is still waiting, which tells the waiting calls
\* apart.
NextLive ==
  \/ \E newStatus \in Statuses, u \in {v \in Users : v.id \in LiveCallers} :
       /\ ~Waiting(<<u.id, newStatus>>)
       /\ UpdatePetStatusLoad("p1", newStatus, u.id, u.role, Undefined)
  \/ \E call \in Pending : UpdatePetStatusWrite(call)
  \/ \E newStatus \in Statuses :
       /\ ~Waiting(<<Undefined, newStatus>>)
       /\ ChangeStatusInternalLoad("p1", newStatus, Undefined)
  \/ \E call \in Pending : ChangeStatusInternalWrite(call)
  \/ /\ \A call \in Pending : call.op # "remove"
     /\ RemoveLoad("p1", "u3", "ADMIN")
  \/ \E call \in Pending : RemoveWrite(call)

\* the store answers the write of the call with this key
AnswerStatusCall(key) ==
  \E call \in Pending :
    /\ Keyed(call, key)
    /\ UpdatePetStatusWrite(call) \/ ChangeStatusInternalWrite(call)

\* the store answers every request it was sent
StoreAnswers ==
  /\ \A key \in CallKeys : WF_vars(AnswerStatusCall(key))
  /\ WF_vars(\E call \in Pending : RemoveWrite(call))

SpecLive == Init /\ [][NextLive]_vars /\ StoreAnswers

\* Listing and editing next to the status operations on the listed pet: a
\* shelter lists a pet with a status in the request; the owner and a stranger
\* edit; a USER and an ADMIN ask for status changes; workflows ask for theirs.
NextLifecycle ==
  \/ \E petId \in PetIds, createPetDto \in {d \in CreatePetDtos : d.status # Undefined} :
       Create(petId, createPetDto, "u2", "SHELTER")
  \/ \E updatePetDto \in {d \in UpdatePetDtos : d # NoDto},
          u \in {v \in Users : v.role # "ADMIN"} :
       UpdateLoad("p1", updatePetDto, u.id, u.role)
  \/ \E call \in Pending : UpdateWrite(call)
  \/ \E newStatus \in StatusInputs, u \in {v \in Users : v.role # "SHELTER"} :
       UpdatePetStatusLoad("p1", newStatus, u.id, u.role, Undefined)
  \/ \E call \in Pending : UpdatePetStatusWrite(call)
  \/ \E newStatus \in StatusInputs : ChangeStatusInternalLoad("p1", newStatus, Undefined)
  \/ \E call \in Pending : ChangeStatusInternalWrite(call)

SpecLifecycle == Init /\ [][NextLifecycle]_vars

(***************************************************************************)
(* The adoption workflow: AdoptionController's approve and complete routes *)
(* and AdoptionService.updateAdoptionStatus behind them. The service drives *)
(* the pet through PetsService.changeStatusInternal.                       *)
(***************************************************************************)
AdoptionStatuses == {"requested", "approved", "completed", "rejected"}

\* the status of the escrow attached to an adoption; "none": no escrow
EscrowStatuses == {"created", "funded", "released"}

EscrowInputs == EscrowStatuses \cup {"none"}

\* as approveAdoptionRoles, with the route open to every role
approveAdoptionRoles_AnyRole == UserRole

\* @Roles(Role.ADMIN) on PATCH /adoption/:id/approve
approveAdoptionRoles == {"ADMIN"}

\* @Roles(Role.ADMIN) on PATCH /adoption/:id/complete
completeAdoptionRoles == {"ADMIN"}

\* RolesGuard: the request passes when the user's role is one of the roles
\* the route requires, and is answered 403 otherwise
RolesGuard(requiredRoles, userRole) ==
  IF userRole \in requiredRoles
  THEN Returned(TRUE)
  ELSE Thrown("ForbiddenException", <<"Forbidden resource">>)

\* the escrow gate of a completion: no escrow attached, or a released one
escrowSettled(escrow) == escrow \in {"none", "released"}

\* approve, up to the write of changeStatusInternal: the guard of the route,
\* the adoption's own edge requested -> approved, the pet expected AVAILABLE
\* (Conflict otherwise), then changeStatusInternal(petId, PENDING)
approveAdoptionChecks(store, adoptionStore, adoptionId, userRole) ==
  LET adoption == adoptionStore[adoptionId]
      guard == RolesGuard(approveAdoptionRoles, userRole)
      found == getPetById(store, adoption.petId)
  IN IF ~guard.ok THEN guard
     ELSE IF adoption.status # "requested"
     THEN Thrown("BadRequestException",
                 <<"Cannot change adoption from", adoption.status, "to", "approved">>)
     ELSE IF ~found.ok THEN found
     ELSE IF found.value.status # "AVAILABLE"
     THEN Thrown("ConflictException",
                 <<"Pet is", found.value.status, "expected", "AVAILABLE">>)
     ELSE changeStatusInternalChecks(store, adoption.petId, "PENDING")

\* complete, up to the write of changeStatusInternal: the guard of the route,
\* the adoption's own edge approved -> completed, the escrow gate, then
\* changeStatusInternal(petId, ADOPTED)
completeAdoptionChecks(store, adoptionStore, adoptionId, userRole) ==
  LET adoption == adoptionStore[adoptionId]
      guard == RolesGuard(completeAdoptionRoles, userRole)
  IN IF ~guard.ok THEN guard
     ELSE IF adoption.status # "approved"
     THEN Thrown("BadRequestException",
                 <<"Cannot change adoption from", adoption.status, "to", "completed">>)
     ELSE IF ~escrowSettled(adoption.escrow)
     THEN Thrown("ConflictException",
                 <<"Escrow is", adoption.escrow, "expected", "released">>)
     ELSE changeStatusInternalChecks(store, adoption.petId, "ADOPTED")

\* an adoption call between the read and the write of its changeStatusInternal
InFlightAdoption(op, adoptionId, newStatus, userId, userRole, observed) ==
  [InFlight(op, adoptions[adoptionId].petId, newStatus, userId, userRole, observed)
   EXCEPT !.adoptionId = adoptionId, !.escrow = adoptions[adoptionId].escrow,
          !.workflowStatus = adoptions[adoptionId].status]

\* what a rejected adoption call gave its caller
OutcomeAdoption(op, adoptionId, newStatus, userId, userRole, res) ==
  [Outcome(op, adoptions[adoptionId].petId, newStatus, userId, userRole,
           StatusOf(pets, adoptions[adoptionId].petId), res, NoPet, <<>>, NoInfo)
   EXCEPT !.adoptionId = adoptionId, !.escrow = adoptions[adoptionId].escrow,
          !.workflowStatus = adoptions[adoptionId].status]

\* Two requested adoptions of the one listed pet, each with no escrow or with
\* an escrow in any of its states.
InitAdoption ==
  /\ pets = [p \in PetIds |->
               IF p = "p1" THEN [status |-> "AVAILABLE", currentOwnerId |-> "u1", name |-> "n0"]
               ELSE NoPet]
  /\ calls = EmptyBag
  /\ last = NoOutcome
  /\ pure = NoPure
  /\ adoptions \in [AdoptionIds -> {[status |-> "requested", petId |-> "p1", escrow |-> x] :
                                      x \in EscrowInputs}]
  /\ custodies = [c \in CustodyIds |-> NoCustody]
  /\ events = <<>>
  /\ statics = InitialStatics

ApproveAdoptionLoad(adoptionId, userId, userRole) ==
  /\ BagCardinality(calls) < MaxCalls
  /\ LET r == approveAdoptionChecks(pets, adoptions, adoptionId, userRole)
     IN IF r.ok
        THEN /\ calls' = calls (+) SetToBag({InFlightAdoption("approveAdoption", adoptionId,
                                                              "PENDING", userId, userRole,
                                                              r.value.status)})
             /\ UNCHANGED last
        ELSE /\ last' = OutcomeAdoption("approveAdoption", adoptionId, "PENDING",
                                        userId, userRole, r)
             /\ UNCHANGED calls
  /\ UNCHANGED <<pets, pure, adoptions, custodies, events, statics>>

\* changeStatusInternal's prisma.pet.update answers and the adoption's own
\* status is stored with it
ApproveAdoptionWrite(call) ==
  /\ call.op = "approveAdoption"
  /\ pets' = petUpdateStatus(pets, call.petId, call.newStatus)
  /\ adoptions' = [adoptions EXCEPT ![call.adoptionId].status = "approved"]
  /\ \E sinkOk \in BOOLEAN :
       last' = AfterWrite(call, pets'[call.petId],
                          logStatusChange(call.petId, call.observed, call.newStatus,
                                          Undefined, "System-triggered status change",
                                          sinkOk))
  /\ calls' = calls (-) SetToBag({call})
  /\ UNCHANGED <<pure, custodies, events, statics>>

CompleteAdoptionLoad(adoptionId, userId, userRole) ==
  /\ BagCardinality(calls) < MaxCalls
  /\ LET r == completeAdoptionChecks(pets, adoptions, adoptionId, userRole)
     IN IF r.ok
        THEN /\ calls' = calls (+) SetToBag({InFlightAdoption("completeAdoption", adoptionId,
                                                              "ADOPTED", userId, userRole,
                                                              r.value.status)})
             /\ UNCHANGED last
        ELSE /\ last' = OutcomeAdoption("completeAdoption", adoptionId, "ADOPTED",
                                        userId, userRole, r)
             /\ UNCHANGED calls
  /\ UNCHANGED <<pets, pure, adoptions, custodies, events, statics>>

CompleteAdoptionWrite(call) ==
  /\ call.op = "completeAdoption"
  /\ pets' = petUpdateStatus(pets, call.petId, call.newStatus)
  /\ adoptions' = [adoptions EXCEPT ![call.adoptionId].status = "completed"]
  /\ \E sinkOk \in BOOLEAN :
       last' = AfterWrite(call, pets'[call.petId],
                          logStatusChange(call.petId, call.observed, call.newStatus,
                                          Undefined, "System-triggered status change",
                                          sinkOk))
  /\ calls' = calls (-) SetToBag({call})
  /\ UNCHANGED <<pure, custodies, events, statics>>

\* the escrow of an adoption is funded, then released
EscrowAdvance(adoptionId) ==
  /\ adoptions[adoptionId].escrow \in {"created", "funded"}
  /\ adoptions' = [adoptions EXCEPT ![adoptionId].escrow =
                     IF @ = "created" THEN "funded" ELSE "released"]
  /\ UNCHANGED <<pets, calls, last, pure, custodies, events, statics>>

\* start of a custody, up to the write of changeStatusInternal: the custody
\* is new, then changeStatusInternal(petId, IN_CUSTODY)
custodyStartChecks(store, custodyStore, custodyId, petId) ==
  IF custodyStore[custodyId] # NoCustody
  THEN Thrown("BadRequestException", <<"Custody already started:", custodyId>>)
  ELSE changeStatusInternalChecks(store, petId, "IN_CUSTODY")

\* end of a custody, up to the write of changeStatusInternal: the custody's
\* own edge active -> completed, then changeStatusInternal(petId, AVAILABLE)
custodyEndChecks(store, custodyStore, custodyId) ==
  IF custodyStore[custodyId].status # "active"
  THEN Thrown("BadRequestException",
              <<"Cannot change custody from", custodyStore[custodyId].status,
                "to", "completed">>)
  ELSE changeStatusInternalChecks(store, custodyStore[custodyId].petId, "AVAILABLE")

\* a custody call between the read and the write of its changeStatusInternal
InFlightCustody(op, custodyId, petId, newStatus, observed) ==
  [InFlight(op, petId, newStatus, Undefined, "none", observed)
   EXCEPT !.custodyId = custodyId, !.workflowStatus = custodies[custodyId].status]

\* what a rejected custody call gave its caller
OutcomeCustody(op, custodyId, petId, newStatus, res) ==
  [Outcome(op, petId, newStatus, Undefined, "none",
           IF petId \in PetIds THEN StatusOf(pets, petId) ELSE "none",
           res, NoPet, <<>>, NoInfo)
   EXCEPT !.custodyId = custodyId, !.workflowStatus = custodies[custodyId].status]

CustodyStartLoad(custodyId, petId) ==
  /\ BagCardinality(calls) < MaxCalls
  /\ LET r == custodyStartChecks(pets, custodies, custodyId, petId)
     IN IF r.ok
        THEN /\ calls' = calls (+) SetToBag({InFlightCustody("custodyStart", custodyId, petId,
                                                             "IN_CUSTODY", r.value.status)})
             /\ UNCHANGED last
        ELSE /\ last' = OutcomeCustody("custodyStart", custodyId, petId, "IN_CUSTODY", r)
             /\ UNCHANGED calls
  /\ UNCHANGED <<pets, pure, adoptions, custodies, events, statics>>

\* changeStatusInternal's prisma.pet.update answers and the custody is stored
\* as active with it
CustodyStartWrite(call) ==
  /\ call.op = "custodyStart"
  /\ pets' = petUpdateStatus(pets, call.petId, call.newStatus)
  /\ custodies' = [custodies EXCEPT ![call.custodyId] =
                     [status |-> "active", petId |-> call.petId]]
  /\ \E sinkOk \in BOOLEAN :
       last' = AfterWrite(call, pets'[call.petId],
                          logStatusChange(call.petId, call.observed, call.newStatus,
                                          Undefined, "System-triggered status change",
                                          sinkOk))
  /\ calls' = calls (-) SetToBag({call})
  /\ UNCHANGED <<pure, adoptions, events, statics>>

CustodyEndLoad(custodyId) ==
  /\ BagCardinality(calls) < MaxCalls
  /\ LET r == custodyEndChecks(pets, custodies, custodyId)
         petId == custodies[custodyId].petId
     IN IF r.ok
        THEN /\ calls' = calls (+) SetToBag({InFlightCustody("custodyEnd", custodyId, petId,
                                                             "AVAILABLE", r.value.status)})
             /\ UNCHANGED last
        ELSE /\ last' = OutcomeCustody("custodyEnd", custodyId, petId, "AVAILABLE", r)
             /\ UNCHANGED calls
  /\ UNCHANGED <<pets, pure, adoptions, custodies, events, statics>>

CustodyEndWrite(call) ==
  /\ call.op = "custodyEnd"
  /\ pets' = petUpdateStatus(pets, call.petId, call.newStatus)
  /\ custodies' = [custodies EXCEPT ![call.custodyId].status = "completed"]
  /\ \E sinkOk \in BOOLEAN :
       last' = AfterWrite(call, pets'[call.petId],
                          logStatusChange(call.petId, call.observed, call.newStatus,
                                          Undefined, "System-triggered status change",
                                          sinkOk))
  /\ calls' = calls (-) SetToBag({call})
  /\ UNCHANGED <<pure, adoptions, events, statics>>

NextAdoption ==
  \/ \E adoptionId \in AdoptionIds, u \in Users :
       ApproveAdoptionLoad(adoptionId, u.id, u.role)
  \/ \E call \in Pending : ApproveAdoptionWrite(call)
  \/ \E adoptionId \in AdoptionIds, u \in Users :
       CompleteAdoptionLoad(adoptionId, u.id, u.role)
  \/ \E call \in Pending : CompleteAdoptionWrite(call)
  \/ \E adoptionId \in AdoptionIds : EscrowAdvance(adoptionId)
  \/ \E custodyId \in CustodyIds : CustodyStartLoad(custodyId, "p1")
  \/ \E call \in Pending : CustodyStartWrite(call)
  \/ \E custodyId \in CustodyIds : CustodyEndLoad(custodyId)
  \/ \E call \in Pending : CustodyEndWrite(call)

SpecAdoption == InitAdoption /\ [][NextAdoption]_vars

\* a custody agreement next to direct status updates of the same pet
NextCustody ==
  \/ \E custodyId \in CustodyIds : CustodyStartLoad(custodyId, "p1")
  \/ \E call \in Pending : CustodyStartWrite(call)
  \/ \E custodyId \in CustodyIds : CustodyEndLoad(custodyId)
  \/ \E call \in Pending : CustodyEndWrite(call)
  \/ \E newStatus \in Statuses, u \in Users :
       UpdatePetStatusLoad("p1", newStatus, u.id, u.role, Undefined)
  \/ \E call \in Pending : UpdatePetStatusWrite(call)

SpecCustody == Init /\ [][NextCustody]_vars

(***************************************************************************)
(* The event-logging AdoptionController: approveAdoption records the       *)
(* approval in the event log and answers with a message.                   *)
(***************************************************************************)
\* @Roles(Role.ADMIN) on the event-logging PATCH /adoption/:id/approve
approveAdoptionEventRoles == {"ADMIN"}

\* the argument approveAdoption hands to eventsService.logEvent
ApprovedEvent(id, actorId) ==
  [entityType |-> "ADOPTION", entityId |-> id, eventType |-> "ADOPTION_APPROVED",
   actorId |-> actorId,
   payload |-> [adoptionId |-> id, status |-> "APPROVED", source |-> "AdoptionController"]]

\* eventsService.logEvent: the event is appended to the log, or the log
\* rejects the write and the promise is rejected with its error
logEvent(log, event, logOk) ==
  IF logOk
  THEN [ok |-> TRUE, exception |-> "none", message |-> <<>>, log |-> Append(log, event)]
  ELSE [ok |-> FALSE, exception |-> "Error", message |-> <<"Database unavailable">>,
        log |-> log]

\* as approveAdoption, with the error of logEvent caught and dropped
approveAdoption_SwallowsFailure(log, id, actorId, logOk) ==
  LET r == logEvent(log, ApprovedEvent(id, actorId), logOk)
  IN [ok |-> TRUE, exception |-> "none",
      message |-> <<"Adoption", id, "approved">>, log |-> r.log]

\* approveAdoption past its guards: await logEvent inside try/catch, the
\* catch throwing InternalServerErrorException, then the message
approveAdoption(log, id, actorId, logOk) ==
  LET r == logEvent(log, ApprovedEvent(id, actorId), logOk)
  IN IF r.ok
     THEN [ok |-> TRUE, exception |-> "none",
           message |-> <<"Adoption", id, "approved">>, log |-> r.log]
     ELSE [ok |-> FALSE, exception |-> "InternalServerErrorException",
           message |-> <<"Failed to record adoption approval event">>, log |-> r.log]

\* one request to the route: RolesGuard, then the handler
ApproveAdoptionEvent(id, userId, userRole, logOk) ==
  /\ Len(events) < MaxEvents
  /\ LET guard == RolesGuard(approveAdoptionEventRoles, userRole)
         r == IF guard.ok
              THEN approveAdoption(events, id, userId, logOk)
              ELSE [ok |-> FALSE, exception |-> guard.exception,
                    message |-> guard.message, log |-> events]
     IN /\ events' = r.log
        /\ last' = [Outcome("approveAdoptionEvent", "none", "none", userId, userRole,
                            "none", r, NoPet, <<>>, NoInfo)
                    EXCEPT !.adoptionId = id]
  /\ UNCHANGED <<pets, calls, pure, adoptions, custodies, statics>>

NextEvents ==
  \E id \in AdoptionIds, u \in Users, logOk \in BOOLEAN :
    ApproveAdoptionEvent(id, u.id, u.role, logOk)

SpecEvents == Init /\ [][NextEvents]_vars

(***************************************************************************)
(* The documented edge table, as the properties below refer to it          *)
(***************************************************************************)
OrdinaryEdges ==
  { <<"AVAILABLE", "PENDING">>, <<"AVAILABLE", "IN_CUSTODY">>,
    <<"PENDING", "ADOPTED">>, <<"PENDING", "AVAILABLE">>,
    <<"IN_CUSTODY", "AVAILABLE">> }

ElevatedOnlyEdges == { <<"ADOPTED", "AVAILABLE">> }

TableEdges == OrdinaryEdges \cup ElevatedOnlyEdges

OrdinaryUsers == {u \in Users : u.role # "ADMIN"}

AdminUsers == {u \in Users : u.role = "ADMIN"}

\* the call o (finished or in flight) is an updatePetStatus call
IsUpdate(o) == o.op = "updatePetStatus"

\* the last call ended with exception cls, and the store holds the pet as the
\* call read it (no pet, if it read none): the call wrote nothing
Rejected(cls) ==
  /\ ~last.ok
  /\ last.exception = cls
  /\ pets[last.petId].status = last.observed

\* the last call returned the pet with the requested status, which is the
\* stored one
Succeeded ==
  /\ last.ok
  /\ last.returned.status = last.newStatus
  /\ pets[last.petId].status = last.newStatus

(***************************************************************************)
(* C1: updatePetStatus on a stored pet, for a pair (stored state,          *)
(* requested state) of the four states that is not an edge of the table    *)
(* (the four no-op pairs included), fails with BadRequestException         *)
(* whatever the actor's role, ADMIN included, and writes nothing: the call *)
(* ends rejected and is never left waiting on a write.                     *)
(***************************************************************************)
C1_IllegalPairRejected ==
  /\ ( /\ IsUpdate(last)
       /\ last.observed \in Statuses
       /\ last.newStatus \in Statuses
       /\ <<last.observed, last.newStatus>> \notin TableEdges )
     => Rejected("BadRequestException")
  /\ \A call \in Pending :
       (IsUpdate(call) /\ call.newStatus \in Statuses)
       => <<call.observed, call.newStatus>> \in TableEdges

\* an ADMIN asked for ADOPTED on an ADOPTED pet and got BadRequestException
C1_Witness ==
  /\ last.op = "updatePetStatus"
  /\ last.observed = "ADOPTED"
  /\ last.newStatus = "ADOPTED"
  /\ last.userRole = "ADMIN"
  /\ last.exception = "BadRequestException"
  /\ pets["p1"].status = "ADOPTED"

(***************************************************************************)
(* C2: of two updatePetStatus calls that read the same pet in the same     *)
(* state and ask for two different legal targets, at most one commits its  *)
(* write: once one has committed, the write of the other changes nothing   *)
(* and the call fails with a Conflict error.                               *)
(***************************************************************************)
C2_SecondWriterConflicts ==
  [][\A call \in Pending :
       ( /\ call.op = "updatePetStatus"
         /\ last.op = "updatePetStatus"
         /\ last.ok
         /\ last.petId = call.petId
         /\ last.observed = call.observed
         /\ last.newStatus # call.newStatus
         /\ UpdatePetStatusWrite(call) )
       => ( /\ ~last'.ok
            /\ last'.exception = "ConflictException"
            /\ pets' = pets )]_vars

(***************************************************************************)
(* C3: on an ADOPTED pet, updatePetStatus to AVAILABLE by a USER or        *)
(* SHELTER actor is rejected with ForbiddenException and the pet stays     *)
(* ADOPTED; by an ADMIN it succeeds and the stored state is AVAILABLE.     *)
(***************************************************************************)
C3_ElevatedOnlyForbidden ==
  ( /\ IsUpdate(last)
    /\ last.observed = "ADOPTED"
    /\ last.newStatus = "AVAILABLE" )
  => IF last.userRole = "ADMIN"
     THEN Succeeded
     ELSE Rejected("ForbiddenException")

(***************************************************************************)
(* C4: every operation that takes a pet id fails with NotFoundException    *)
(* when no pet with that id is stored, whatever the actor's role and the   *)
(* requested target (legal, no-op or not a status at all), and writes      *)
(* nothing: never ForbiddenException or BadRequestException, and no call   *)
(* on such an id is left waiting on a write.                               *)
(***************************************************************************)
C4_NotFoundFirst ==
  /\ ( /\ last.op \in {"getPetById", "updatePetStatus", "changeStatusInternal",
                       "getAllowedTransitions", "getTransitionInfo"}
       /\ last.observed = "none" )
     => /\ Rejected("NotFoundException")
        /\ pets[last.petId] = NoPet
  /\ \A call \in Pending : call.observed # "none"

\* a USER asked for ADOPTED on an id nobody has and got NotFoundException
C4_Witness ==
  /\ last.op = "updatePetStatus"
  /\ last.petId = "p2"
  /\ last.newStatus = "ADOPTED"
  /\ last.userRole = "USER"
  /\ last.exception = "NotFoundException"
  /\ pets["p2"] = NoPet

(***************************************************************************)
(* C5: updatePetStatus checks existence, then the legality of the edge,    *)
(* then the actor's authority, then writes: an actor without ADMIN asking  *)
(* for a pair that is not an edge gets BadRequestException, not            *)
(* ForbiddenException; NotFoundException comes before both; and a call     *)
(* reaches its write only for a stored pet, an edge of the table and a     *)
(* target its role may set.                                                *)
(***************************************************************************)
C5_CheckOrder ==
  /\ (IsUpdate(last) /\ last.observed = "none")
     => last.exception = "NotFoundException"
  /\ ( /\ IsUpdate(last)
       /\ last.observed \in Statuses
       /\ last.newStatus \in Statuses
       /\ <<last.observed, last.newStatus>> \notin TableEdges
       /\ last.userRole # "ADMIN" )
     => last.exception = "BadRequestException"
  /\ (IsUpdate(last) /\ last.exception = "ForbiddenException")
     => <<last.observed, last.newStatus>> \in TableEdges
  /\ \A call \in Pending :
       IsUpdate(call)
       => /\ call.observed \in Statuses
          /\ <<call.observed, call.newStatus>> \in TableEdges
          /\ (call.newStatus \in {"ADOPTED", "AVAILABLE"} => call.userRole = "ADMIN")

\* a USER asked for ADOPTED on an IN_CUSTODY pet and got BadRequestException
C5_Witness ==
  /\ last.op = "updatePetStatus"
  /\ last.observed = "IN_CUSTODY"
  /\ last.newStatus = "ADOPTED"
  /\ last.userRole = "USER"
  /\ last.exception = "BadRequestException"
  /\ pets["p1"].status = "IN_CUSTODY"

(***************************************************************************)
(* C6: validate returns true on every ordinary edge of the table for every *)
(* role value, an absent role included.                                    *)
(***************************************************************************)
C6_OrdinaryEdgesAnyRole ==
  ( /\ pure.fn = "validate"
    /\ <<pure.currentStatus, pure.newStatus>> \in OrdinaryEdges )
  => (pure.ok /\ pure.value = TRUE)

\* validate(PENDING, AVAILABLE) without a role returned true
C6_Witness ==
  /\ pure.fn = "validate"
  /\ pure.currentStatus = "PENDING"
  /\ pure.newStatus = "AVAILABLE"
  /\ pure.userRole = Undefined
  /\ pure.ok
  /\ pure.value = TRUE

(***************************************************************************)
(* C7: an updatePetStatus call to PENDING by a USER or SHELTER actor that   *)
(* read its pet as AVAILABLE never ends rejected: it returns the pet with  *)
(* state PENDING, which is then the stored state.                          *)
(***************************************************************************)
C7_AvailableToPendingOrdinary ==
  ( /\ IsUpdate(last)
    /\ last.observed = "AVAILABLE"
    /\ last.newStatus = "PENDING"
    /\ last.userRole \in {"USER", "SHELTER"} )
  => Succeeded

\* a SHELTER actor's AVAILABLE -> PENDING returned, and the pet is PENDING
C7_Witness ==
  /\ last.op = "updatePetStatus"
  /\ last.ok
  /\ last.observed = "AVAILABLE"
  /\ last.newStatus = "PENDING"
  /\ last.userRole = "SHELTER"
  /\ last.returned.status = "PENDING"
  /\ pets["p1"].status = "PENDING"

\* the table's edges whose target is ADOPTED or AVAILABLE
GuardedOrdinaryEdges ==
  { <<"PENDING", "ADOPTED">>, <<"PENDING", "AVAILABLE">>, <<"IN_CUSTODY", "AVAILABLE">> }

(***************************************************************************)
(* C8: on an ordinary edge whose target is ADOPTED or AVAILABLE,           *)
(* updatePetStatus by a USER or SHELTER actor is rejected with             *)
(* ForbiddenException, the stored pet unchanged and no write left to come; *)
(* the same request by an ADMIN returns the pet with the target stored.    *)
(***************************************************************************)
C8_SensitiveTargetsNeedAdmin ==
  /\ ( /\ IsUpdate(last)
       /\ <<last.observed, last.newStatus>> \in GuardedOrdinaryEdges )
     => IF last.userRole = "ADMIN"
        THEN Succeeded
        ELSE Rejected("ForbiddenException")
  /\ \A call \in Pending :
       (IsUpdate(call) /\ <<call.observed, call.newStatus>> \in GuardedOrdinaryEdges)
       => call.userRole = "ADMIN"

\* a SHELTER actor asked for AVAILABLE on an IN_CUSTODY pet and was forbidden
C8_Witness ==
  /\ last.op = "updatePetStatus"
  /\ last.observed = "IN_CUSTODY"
  /\ last.newStatus = "AVAILABLE"
  /\ last.userRole = "SHELTER"
  /\ last.exception = "ForbiddenException"
  /\ pets["p1"].status = "IN_CUSTODY"

\* the targets the table gives a state, by column
OrdinaryTargets(s) == {t \in Statuses : <<s, t>> \in OrdinaryEdges}

ElevatedOnlyTargets(s) == {t \in Statuses : <<s, t>> \in ElevatedOnlyEdges}

(***************************************************************************)
(* C9: getAllowedTransitions(s, r), for each of the four states s and each *)
(* role r (absent included), lists exactly the ordinary targets of s, plus *)
(* the elevated-only targets of s exactly when r is ADMIN, each once; for  *)
(* a role other than ADMIN it holds no elevated-only target and is empty   *)
(* for ADOPTED.                                                            *)
(***************************************************************************)
C9_AllowedTargetsByRole ==
  ( /\ pure.fn = "getAllowedTransitions"
    /\ pure.currentStatus \in Statuses )
  => /\ SeqToSet(pure.targets) =
          OrdinaryTargets(pure.currentStatus)
            \cup (IF pure.userRole = "ADMIN"
                  THEN ElevatedOnlyTargets(pure.currentStatus) ELSE {})
     /\ Cardinality(SeqToSet(pure.targets)) = Len(pure.targets)
     /\ pure.userRole # "ADMIN"
          => /\ SeqToSet(pure.targets) \cap ElevatedOnlyTargets(pure.currentStatus) = {}
             /\ (pure.currentStatus = "ADOPTED" => pure.targets = <<>>)

\* an ADMIN is offered AVAILABLE for an ADOPTED pet
C9_Witness ==
  /\ pure.fn = "getAllowedTransitions"
  /\ pure.currentStatus = "ADOPTED"
  /\ pure.userRole = "ADMIN"
  /\ pure.targets = <<"AVAILABLE">>

(***************************************************************************)
(* C10: ADOPTED is terminal for ordinary actors: a write that changes a    *)
(* pet stored as ADOPTED is never the write of an updatePetStatus call by  *)
(* a USER or SHELTER actor; it is an ADMIN's or an internal call's, and it *)
(* stores AVAILABLE.                                                       *)
(***************************************************************************)
C10_AdoptedTerminalForOrdinary ==
  [][\A call \in Pending :
       ( /\ pets[call.petId].status = "ADOPTED"
         /\ pets'[call.petId].status # "ADOPTED"
         /\ (UpdatePetStatusWrite(call) \/ ChangeStatusInternalWrite(call)) )
       => /\ (call.op = "changeStatusInternal" \/ call.userRole = "ADMIN")
          /\ pets'[call.petId].status = "AVAILABLE"]_vars

\* the call o (finished or in flight) is a changeStatusInternal call
IsInternal(o) == o.op = "changeStatusInternal"

(***************************************************************************)
(* C11: changeStatusInternal does not bypass the edge table: on a stored   *)
(* pet, for a pair (stored state, requested state) of the four states that *)
(* is in neither column of the table (the no-op pairs included), it fails  *)
(* with BadRequestException and writes nothing: the call ends rejected and *)
(* is never left waiting on a write.                                       *)
(***************************************************************************)
C11_InternalKeepsTable ==
  /\ ( /\ IsInternal(last)
       /\ last.observed \in Statuses
       /\ last.newStatus \in Statuses
       /\ <<last.observed, last.newStatus>> \notin TableEdges )
     => Rejected("BadRequestException")
  /\ \A call \in Pending :
       (IsInternal(call) /\ call.newStatus \in Statuses)
       => <<call.observed, call.newStatus>> \in TableEdges

\* an internal call asked for ADOPTED on an IN_CUSTODY pet and was rejected
C11_Witness ==
  /\ IsInternal(last)
  /\ last.observed = "IN_CUSTODY"
  /\ last.newStatus = "ADOPTED"
  /\ last.exception = "BadRequestException"
  /\ pets["p1"].status = "IN_CUSTODY"

C13_AuditFailureNotPromoted ==
  ( /\ IsUpdate(last) \/ IsInternal(last)
    /\ last.written
    /\ last.audit = NoLine )
  => /\ last.ok
     /\ last.exception = "none"
     /\ last.returned.status = last.newStatus
     /\ pets[last.petId].status = last.newStatus

C13_Witness ==
  /\ IsUpdate(last)
  /\ last.written
  /\ last.audit = NoLine
  /\ last.ok
  /\ last.observed = "AVAILABLE"
  /\ last.returned.status = "PENDING"
  /\ pets["p1"].status = "PENDING"

\* the latest pure application was validate
IsValidate(p) == p.fn = "validate"

\* C14: validate rejects a no-op request (current = requested, for each of
\* the four states) with a message saying the pet is 'already' in that state,
\* and rejects an absent edge between two distinct states with a message that
\* names the current and the requested state and says the transition is
\* 'not allowed'; the two messages differ and both are BadRequestException.
C14_NoopDistinctFromAbsentEdge ==
  (IsValidate(pure) /\ pure.currentStatus \in Statuses /\ pure.newStatus \in Statuses)
  => /\ pure.currentStatus = pure.newStatus
        => /\ ~pure.ok
           /\ pure.exception = "BadRequestException"
           /\ pure.message = <<"Pet status is already", pure.currentStatus,
                               "No transition needed.">>
           /\ ~Includes(pure.message, "This transition is not allowed.")
     /\ ( /\ pure.currentStatus # pure.newStatus
          /\ <<pure.currentStatus, pure.newStatus>> \notin TableEdges )
        => /\ ~pure.ok
           /\ pure.exception = "BadRequestException"
           /\ pure.message = <<"Cannot change status from", pure.currentStatus,
                               "to", pure.newStatus,
                               "This transition is not allowed.">>
           /\ ~Includes(pure.message, "Pet status is already")

C14_Witness ==
  /\ IsValidate(pure)
  /\ pure.currentStatus = "PENDING"
  /\ pure.newStatus = "PENDING"
  /\ ~pure.ok
  /\ pure.message[1] = "Pet status is already"

\* C15: validate on the elevated-only edge ADOPTED -> AVAILABLE returns true
\* for the role ADMIN; for USER, SHELTER and an absent role it throws a
\* BadRequestException whose message names the target state and the required
\* role ADMIN. An absent role is not treated as elevated.
C15_ElevatedEdgeByRole ==
  ( /\ IsValidate(pure)
    /\ pure.currentStatus = "ADOPTED"
    /\ pure.newStatus = "AVAILABLE" )
  => IF pure.userRole = "ADMIN"
     THEN pure.ok /\ pure.value = TRUE
     ELSE /\ ~pure.ok
          /\ pure.exception = "BadRequestException"
          /\ Includes(pure.message, "AVAILABLE")
          /\ Includes(pure.message, "This action requires ADMIN role.")

C15_Witness ==
  /\ IsValidate(pure)
  /\ pure.currentStatus = "ADOPTED"
  /\ pure.newStatus = "AVAILABLE"
  /\ pure.userRole = Undefined
  /\ ~pure.ok
  /\ pure.exception = "BadRequestException"

\* the requested values that appear as a target in neither table
NonTableValues == StatusInputs \ Statuses

\* C16: a requested value that is no target of the table is rejected by
\* validate with BadRequestException whatever the current status and whatever
\* the role, and updatePetStatus given such a value ends with that exception,
\* leaves the pet as it read it and never gets as far as its write.
C16_NonTableValueRejected ==
  /\ \A currentStatus \in StatusInputs, userRole \in RoleInputs, newStatus \in NonTableValues :
       LET r == validate(currentStatus, newStatus, userRole)
       IN ~r.ok /\ r.exception = "BadRequestException"
  /\ ( /\ IsUpdate(last)
       /\ last.observed \in Statuses
       /\ last.newStatus \in NonTableValues )
     => Rejected("BadRequestException") /\ ~last.written
  /\ \A call \in Pending : IsUpdate(call) => call.newStatus \notin NonTableValues

C16_Witness ==
  /\ IsUpdate(last)
  /\ last.observed = "PENDING"
  /\ last.newStatus = Bogus
  /\ last.userRole = "ADMIN"
  /\ last.exception = "BadRequestException"
  /\ last.message = <<"Invalid new status:", Bogus>>
  /\ pets["p1"].status = "PENDING"

\* no element twice
NoDuplicates(seq) == Cardinality(SeqToSet(seq)) = Len(seq)

\* C17: getTransitionInfo, for a pet in each of the four states s, returns
\* without error s as the current status, exactly the ordinary targets of s
\* as allowedTransitions, exactly the elevated-only targets of s as
\* adminOnlyTransitions (AVAILABLE for ADOPTED, none otherwise) and a
\* non-empty description. The operation takes no role, so the result is the
\* same for every caller.
C17_TransitionInfo ==
  (last.op = "getTransitionInfo" /\ last.observed \in Statuses)
  => /\ last.ok
     /\ last.info.currentStatus = last.observed
     /\ SeqToSet(last.info.allowedTransitions) = OrdinaryTargets(last.observed)
     /\ NoDuplicates(last.info.allowedTransitions)
     /\ SeqToSet(last.info.adminOnlyTransitions) = ElevatedOnlyTargets(last.observed)
     /\ NoDuplicates(last.info.adminOnlyTransitions)
     /\ SeqToSet(last.info.adminOnlyTransitions)
          = IF last.observed = "ADOPTED" THEN {"AVAILABLE"} ELSE {}
     /\ last.info.description \notin {Undefined, "none", ""}

C17_Witness ==
  /\ last.op = "getTransitionInfo"
  /\ last.ok
  /\ last.observed = "ADOPTED"
  /\ last.info.currentStatus = "ADOPTED"
  /\ last.info.allowedTransitions = <<>>
  /\ last.info.adminOnlyTransitions = <<"AVAILABLE">>

\* C18: isTransitionValid never throws and agrees with validate on every
\* (current, requested, role): it returns true exactly when validate returns
\* true, that is on an ordinary edge, or on the elevated-only edge with the
\* role ADMIN, and false exactly when validate throws.
C18_IsTransitionValidAgrees ==
  pure.fn = "isTransitionValid"
  => LET r == validate(pure.currentStatus, pure.newStatus, pure.userRole)
         edge == <<pure.currentStatus, pure.newStatus>>
     IN /\ pure.ok
        /\ pure.exception = "none"
        /\ pure.value \in BOOLEAN
        /\ pure.value <=> (r.ok /\ r.value = TRUE)
        /\ ~pure.value <=> ~r.ok
        /\ pure.value <=> \/ edge \in OrdinaryEdges
                          \/ edge \in ElevatedOnlyEdges /\ pure.userRole = "ADMIN"

C18_Witness ==
  /\ pure.fn = "isTransitionValid"
  /\ pure.currentStatus = "ADOPTED"
  /\ pure.newStatus = "AVAILABLE"
  /\ pure.userRole = "SHELTER"
  /\ pure.ok
  /\ pure.value = FALSE

IsApprove(o) == o.op = "approveAdoption"

IsComplete(o) == o.op = "completeAdoption"

\* C19: approving an adoption requires the ADMIN role (any other role is
\* refused and nothing is written); an approval that finds the pet in a
\* status other than AVAILABLE is rejected with ConflictException and leaves
\* pet and adoption as they were; and the write of a successful approval
\* moves the pet from AVAILABLE to PENDING.
C19_ApprovalClaimsAvailablePet ==
  /\ [](IsApprove(last) /\ last.userRole # "ADMIN"
          => Rejected("ForbiddenException") /\ ~last.written)
  /\ [](\A call \in Pending : IsApprove(call) => call.userRole = "ADMIN")
  /\ []( ( /\ IsApprove(last)
           /\ last.userRole = "ADMIN"
           /\ ~last.written
           /\ last.exception # "BadRequestException"
           /\ last.observed \in Statuses \ {"AVAILABLE"} )
         => Rejected("ConflictException") )
  /\ [][ \A call \in Pending :
           ApproveAdoptionWrite(call)
           => /\ pets[call.petId].status = "AVAILABLE"
              /\ pets'[call.petId].status = "PENDING"
              /\ adoptions'[call.adoptionId].status = "approved" ]_vars

C28_EveryStoredChangeIsAnEdge ==
  [][ /\ \A p \in PetIds :
           pets'[p].status # pets[p].status
           => <<pets[p].status, pets'[p].status>> \in TableEdges
      /\ \A call \in Pending :
           (UpdatePetStatusWrite(call) \/ ChangeStatusInternalWrite(call))
           => pets[call.petId].status = call.observed ]_vars

\* C30: a transition call has no partial outcome. When updatePetStatus or
\* changeStatusInternal ends with NotFound, BadRequest (invalid transition),
\* Forbidden or Conflict, it has written nothing, the stored pet is as the
\* call read it, and no audit line was emitted; when it succeeds, the stored
\* status is the requested one.
C30_NoPartialCommit ==
  (IsUpdate(last) \/ IsInternal(last))
  => /\ ( /\ ~last.ok
          /\ last.exception \in {"NotFoundException", "BadRequestException",
                                 "ForbiddenException", "ConflictException"} )
        => /\ ~last.written
           /\ pets[last.petId].status = last.observed
           /\ last.audit = NoLine
     /\ last.ok
        => /\ last.written
           /\ last.returned.status = last.newStatus
           /\ pets[last.petId].status = last.newStatus

C30_Witness ==
  /\ IsUpdate(last)
  /\ ~last.ok
  /\ last.exception = "ForbiddenException"
  /\ last.observed = "PENDING"
  /\ last.newStatus = "ADOPTED"
  /\ last.audit = NoLine
  /\ pets["p1"].status = "PENDING"

IsCustodyStart(o) == o.op = "custodyStart"

IsCustodyEnd(o) == o.op = "custodyEnd"

\* the call o is a workflow's status change
IsWorkflow(o) == IsApprove(o) \/ IsComplete(o) \/ IsCustodyStart(o) \/ IsCustodyEnd(o)

\* the stored status of the adoption or custody the call o is about
WorkflowStatusOf(o) ==
  IF IsApprove(o) \/ IsComplete(o)
  THEN adoptions[o.adoptionId].status
  ELSE custodies[o.custodyId].status

C22_CustodyLockstep ==
  /\ (IsCustodyStart(last) /\ last.written)
     => /\ last.observed = "AVAILABLE"
        /\ pets[last.petId].status = "IN_CUSTODY"
        /\ custodies[last.custodyId].status = "active"
  /\ (IsCustodyEnd(last) /\ last.written)
     => /\ last.observed = "IN_CUSTODY"
        /\ pets[last.petId].status = "AVAILABLE"
        /\ custodies[last.custodyId].status = "completed"
  /\ \A call \in Pending :
       /\ IsCustodyStart(call) => call.observed = "AVAILABLE"
       /\ IsCustodyEnd(call) => call.observed = "IN_CUSTODY"

\* C22 as amended: a start goes ahead only on a pet read as AVAILABLE and
\* stores IN_CUSTODY; an end stores AVAILABLE and goes ahead on a pet read
\* in any other status (IN_CUSTODY, PENDING or ADOPTED), being refused with
\* BadRequestException only on a pet read as AVAILABLE.
C22_CustodyFollowsTable ==
  /\ (IsCustodyStart(last) /\ last.written)
     => /\ last.observed = "AVAILABLE"
        /\ pets[last.petId].status = "IN_CUSTODY"
        /\ custodies[last.custodyId].status = "active"
  /\ (IsCustodyStart(last) /\ last.workflowStatus = "none" /\ last.observed # "AVAILABLE")
     => Rejected("BadRequestException")
  /\ (IsCustodyEnd(last) /\ last.written)
     => /\ last.observed \in {"IN_CUSTODY", "PENDING", "ADOPTED"}
        /\ pets[last.petId].status = "AVAILABLE"
        /\ custodies[last.custodyId].status = "completed"
  /\ (IsCustodyEnd(last) /\ last.workflowStatus = "active")
     => (~last.ok <=> last.observed = "AVAILABLE")
  /\ \A call \in Pending :
       /\ IsCustodyStart(call) => call.observed = "AVAILABLE"
       /\ IsCustodyEnd(call) => call.observed \in {"IN_CUSTODY", "PENDING", "ADOPTED"}

C22_Witness ==
  /\ IsCustodyEnd(last)
  /\ last.written
  /\ last.ok
  /\ last.observed = "PENDING"
  /\ pets["p1"].status = "AVAILABLE"
  /\ custodies["c1"].status = "completed"

IsApproveEvent(o) == o.op = "approveAdoptionEvent"

\* C23: a request that reaches approveAdoption of the event-logging
\* controller either records exactly one ADOPTION_APPROVED event for the
\* adoption id with the caller's actor id and answers 'Adoption <id>
\* approved', or, when the event log rejects the write, records nothing and
\* fails with 'Failed to record adoption approval event'.
C23_ApprovalEventRecorded ==
  [][ (IsApproveEvent(last') /\ last'.exception # "ForbiddenException")
      => \/ /\ last'.ok
            /\ last'.message = <<"Adoption", last'.adoptionId, "approved">>
            /\ events' = Append(events, ApprovedEvent(last'.adoptionId, last'.userId))
         \/ /\ ~last'.ok
            /\ last'.exception = "InternalServerErrorException"
            /\ last'.message = <<"Failed to record adoption approval event">>
            /\ events' = events ]_vars

C23_Witness ==
  /\ IsApproveEvent(last)
  /\ ~last.ok
  /\ last.exception = "InternalServerErrorException"
  /\ last.adoptionId = "a2"
  /\ events = <<ApprovedEvent("a1", "u3")>>

IsEdit(o) == o.op = "update"

IsRemove(o) == o.op = "remove"

IsCreate(o) == o.op = "create"

\* C24: update checks existence before ownership. For an id with no stored
\* pet it ends with NotFoundException for every caller, owner or not, ADMIN
\* or not, never with ForbiddenException, and it writes nothing; no update
\* call goes on to its write without having read a stored pet.
C24_UpdateNotFoundFirst ==
  /\ \A call \in Pending : IsEdit(call) => ~Absent(call.observedPet)
  /\ (IsEdit(last) /\ Absent(last.observedPet))
     => /\ ~last.ok
        /\ last.exception = "NotFoundException"
        /\ ~last.written
        /\ Absent(pets[last.petId])

C24_Witness ==
  /\ IsEdit(last)
  /\ last.petId = "p2"
  /\ Absent(last.observedPet)
  /\ last.userRole = "USER"
  /\ last.exception = "NotFoundException"

IsOwnerOrAdmin(o) ==
  o.userId = o.observedPet.currentOwnerId \/ o.userRole = "ADMIN"

\* C25: update on an existing pet is permitted exactly when the caller is
\* the pet's currentOwnerId or has role ADMIN. Such a caller is never refused
\* and its changes are stored (unless the row was deleted while the call was
\* suspended); every other caller ends with ForbiddenException and the
\* stored pet is as it was.
C25_UpdateOwnerOrAdmin ==
  /\ \A call \in Pending : IsEdit(call) => IsOwnerOrAdmin(call)
  /\ (IsEdit(last) /\ ~Absent(last.observedPet))
     => /\ IsOwnerOrAdmin(last)
           => \/ /\ last.ok
                 /\ last.written
                 /\ pets[last.petId] = last.returned
                 /\ last.dto.name # Undefined => last.returned.name = last.dto.name
              \/ /\ last.exception = "PrismaClientKnownRequestError"
                 /\ Absent(pets[last.petId])
        /\ ~IsOwnerOrAdmin(last)
           => /\ ~last.ok
              /\ last.exception = "ForbiddenException"
              /\ ~last.written
              /\ pets[last.petId] = last.observedPet

C25_Witness ==
  /\ IsEdit(last)
  /\ last.userRole = "ADMIN"
  /\ last.userId # last.observedPet.currentOwnerId
  /\ last.ok
  /\ last.written
  /\ pets[last.petId].name = "n2"

\* C26: remove checks existence before role and deletes only for ADMIN. For
\* an id with no stored pet it ends with NotFoundException for every role and
\* deletes nothing; for a stored pet a caller who is not ADMIN, the owner
\* included, ends with ForbiddenException and the pet stays stored; an ADMIN
\* caller's call ends with the pet absent.
C26_RemoveAdminOnly ==
  /\ \A call \in Pending :
       IsRemove(call) => call.userRole = "ADMIN" /\ ~Absent(call.observedPet)
  /\ IsRemove(last)
     => /\ Absent(last.observedPet)
           => /\ ~last.ok
              /\ last.exception = "NotFoundException"
              /\ ~last.written
        /\ (~Absent(last.observedPet) /\ last.userRole # "ADMIN")
           => /\ ~last.ok
              /\ last.exception = "ForbiddenException"
              /\ ~last.written
              /\ pets[last.petId] = last.observedPet
        /\ (~Absent(last.observedPet) /\ last.userRole = "ADMIN")
           => /\ Absent(pets[last.petId])
              /\ last.ok <=> last.written
              /\ ~last.ok => last.exception = "PrismaClientKnownRequestError"

C26_Witness ==
  /\ IsRemove(last)
  /\ last.petId = "p1"
  /\ pets["p1"] = DeletedPet
  /\ last.userRole = "USER"
  /\ last.exception = "NotFoundException"

\* C27: every pet created through create is stored in status AVAILABLE with
\* currentOwnerId the creating caller, whatever the request carries: a status
\* or an owner in the request does not replace them.
C27_CreatedAvailableOwnedByCaller ==
  IsCreate(last)
  => /\ last.ok
     /\ last.written
     /\ last.returned.status = "AVAILABLE"
     /\ last.returned.currentOwnerId = last.userId
     /\ last.returned.name = last.dto.name
     /\ pets[last.petId] = last.returned

C27_Witness ==
  /\ IsCreate(last)
  /\ last.dto.status = "ADOPTED"
  /\ pets[last.petId].status = "AVAILABLE"
  /\ pets[last.petId].currentOwnerId = last.userId

ExpectedAudit(o) ==
  [petId |-> o.petId, oldStatus |-> o.observed, newStatus |-> o.newStatus,
   actor |-> IF IsInternal(o) THEN "(system)" ELSE o.userId,
   reason |-> IF o.reason \notin {Undefined, ""} THEN o.reason
              ELSE IF IsInternal(o) THEN "System-triggered status change"
              ELSE Undefined]

\* C31: every successful updatePetStatus or changeStatusInternal has written
\* and has handed exactly one line to the audit sink, carrying the pet id,
\* the status read at load, the requested status, the actor (the system for
\* an internal call) and the reason (for an internal call without one,
\* 'System-triggered status change'); the sink holds that line or, when it
\* could not take it, nothing. A call that did not write has emitted nothing.
C31_OneAuditRecordAfterWrite ==
  (IsUpdate(last) \/ IsInternal(last))
  => /\ last.ok
        => /\ last.written
           /\ last.emitted = ExpectedAudit(last)
           /\ last.audit \in {last.emitted, NoLine}
     /\ ~last.written
        => /\ last.emitted = NoLine
           /\ last.audit = NoLine

C31_Witness ==
  /\ IsInternal(last)
  /\ last.ok
  /\ last.reason = ""
  /\ last.observed = "PENDING"
  /\ last.audit = [petId |-> "p1", oldStatus |-> "PENDING", newStatus |-> "ADOPTED",
                   actor |-> "(system)", reason |-> "System-triggered status change"]

\* the actor ids and owners a second run may have in place of the first's
ActorIds == {u.id : u \in Users} \cup {"u9"}

\* the store of a second run: the pet as the call read it, owned by owner
StoreAsRead(o, owner) ==
  [p \in PetIds |->
     IF p = o.petId /\ o.observed # "none"
     THEN [status |-> o.observed, currentOwnerId |-> owner, name |-> "n0"]
     ELSE NoPet]

\* a second run gives the result of the first: success, or the same exception
SameResult(o, r) == r.ok = o.ok /\ r.exception = o.exception /\ r.message = o.message

C33_TablesImmutable ==
  /\ statics = InitialStatics
  /\ pure.fn = "validate"
     => pure.ok = validate(pure.currentStatus, pure.newStatus, pure.userRole).ok

\* what the transition contract lists as outcomes besides the updated pet
ListedErrors ==
  {"NotFoundException", "BadRequestException", "ForbiddenException", "ConflictException"}

\* C34: every updatePetStatus or changeStatusInternal call that was made
\* completes once the store has answered it, with the updated pet or one of
\* NotFound, InvalidTransition (BadRequest), Forbidden, Conflict, and no call
\* waits on another: the write of a waiting call can always be answered.
C34_CompletesWithListedOutcome ==
  /\ [](IsStatusCall(last)
        => \/ last.ok /\ last.written /\ ~Absent(last.returned)
           \/ ~last.ok /\ last.exception \in ListedErrors)
  /\ [](\A key \in CallKeys : Waiting(key) => ENABLED AnswerStatusCall(key))
  /\ \A key \in CallKeys : Waiting(key) ~> ~Waiting(key)

\* the termination part of C34 alone
C34_EveryCallCompletes ==
  /\ [](\A key \in CallKeys : Waiting(key) => ENABLED AnswerStatusCall(key))
  /\ \A key \in CallKeys : Waiting(key) ~> ~Waiting(key)

IsListing(o) == o.op = "getAllowedTransitions"

\* C35: the targets the service lists for a role are the targets that role
\* can take. For the list getAllowedTransitions(petId, r) returned, with no
\* call in between, updatePetStatus(petId, t) by an actor of role r passes
\* its checks for every listed t, and passes them for no other status.
C35_ListedTargetsAreTakeable ==
  (IsListing(last) /\ last.ok /\ last.userRole \in UserRole)
  => \A t \in Statuses, u \in Users :
       u.role = last.userRole
       => ( Includes(last.targets, t)
            <=> updatePetStatusChecks(pets, last.petId, t, u.id, u.role).ok )

\* C36: at the validator the listing and the decision agree. For every
\* status s and role r, absent included, the targets getAllowedTransitions(s, r)
\* returns are exactly the statuses t with isTransitionValid(s, t, r) true.
C36_ListingAgreesWithDecision ==
  /\ pure.fn = "getAllowedTransitions"
     => \A t \in StatusInputs :
          Includes(pure.targets, t)
          <=> isTransitionValid(pure.currentStatus, t, pure.userRole)
  /\ pure.fn = "isTransitionValid"
     => ( pure.value
          <=> Includes(getAllowedTransitions(pure.currentStatus, pure.userRole),
                       pure.newStatus) )

C36_Witness ==
  /\ pure.fn = "isTransitionValid"
  /\ pure.currentStatus = "ADOPTED"
  /\ pure.newStatus = "AVAILABLE"
  /\ pure.userRole = Undefined
  /\ ~pure.value
  /\ getAllowedTransitions("ADOPTED", Undefined) = <<>>

\* this step is the write of a status call: the call leaves the calls in
\* flight and its outcome says it has written
IsStatusWrite ==
  /\ BagCardinality(calls') < BagCardinality(calls)
  /\ IsStatusCall(last')
  /\ last'.written

\* C37: under any interleaving of transition calls on one pet every audit
\* record is truthful about the store: the old status it names is the status
\* stored immediately before that call's write and the new status it names is
\* the status stored immediately after, so that the records in write order
\* form a chain.
C37_AuditTruthful ==
  [][IsStatusWrite
     => /\ last'.emitted.oldStatus = pets[last'.petId].status
        /\ last'.emitted.newStatus = pets'[last'.petId].status]_vars

\* C38: of concurrent transition calls that read the same pet in the same
\* status and ask for the same legal target, at most one reports success for
\* that change: a call whose write finds the requested status already stored,
\* put there by another call since this one read the pet, does not return
\* the updated pet.
C38_OneWinnerPerChange ==
  [][( /\ IsStatusWrite
       /\ pets[last'.petId].status = last'.newStatus
       /\ last'.observed # last'.newStatus )
     => ~last'.ok]_vars

\* C39: a successful updatePetStatus or changeStatusInternal changes the
\* status of the pet it names and nothing else: that pet's currentOwnerId and
\* descriptive fields and every other pet are as before the write, also when
\* the new status is ADOPTED.
C39_OnlyStatusChanges ==
  [][(IsStatusWrite /\ last'.ok)
     => \A p \in PetIds :
          pets'[p] = IF p = last'.petId
                     THEN [pets[p] EXCEPT !.status = last'.newStatus]
                     ELSE pets[p]]_vars

C39_Witness ==
  /\ IsStatusCall(last)
  /\ last.ok
  /\ last.written
  /\ last.newStatus = "ADOPTED"
  /\ pets["p1"] = [status |-> "ADOPTED", currentOwnerId |-> "u1", name |-> "n2"]
  /\ ~Absent(pets["p2"])

\* C40: with only USER and SHELTER actors calling updatePetStatus one at a
\* time, every change of a pet's stored status starts at AVAILABLE and ends at
\* PENDING or IN_CUSTODY: a pet that has left AVAILABLE never changes status
\* again, it neither returns to AVAILABLE nor becomes ADOPTED.
C40_NonAdminsOnlyLeaveAvailable ==
  [][\A p \in PetIds :
       pets'[p].status # pets[p].status
         => /\ pets[p].status = "AVAILABLE"
            /\ pets'[p].status \in {"PENDING", "IN_CUSTODY"}]_vars

C40_Witness ==
  /\ pets["p1"].status \in {"PENDING", "IN_CUSTODY"}
  /\ last.op = "updatePetStatus"
  /\ last.petId = "p1"
  /\ last.observed = pets["p1"].status
  /\ last.newStatus \in {"AVAILABLE", "ADOPTED"}
  /\ ~last.ok

====
